---------------------------- MODULE Spec2Model ----------------------------
(***************************************************************************)
(* Multi-party vault: vault state and commitment (src/src/vault.py),       *)
(* withdrawal rules and predicate (src/src/rules.py, src/src/predicate.py),*)
(* proof envelope (src/src/bos_stack/grail_pro.py), share token and        *)
(* governance (src/src/bos_stack/charms.py).                               *)
(*                                                                         *)
(* Identities (hex public keys) are modelled as the integers of Pubkeys;   *)
(* their order is the lexicographic order of the hex strings.  SHA-256 is  *)
(* modelled as an injective function: a digest is named by what was fed to *)
(* the hasher.  An RSA key pair is modelled by the serial                  *)
(* number of the rsa.generate_private_key call that produced it: a         *)
(* signature verifies under a public key iff both carry the same number.   *)
(***************************************************************************)
EXTENDS Integers, Sequences, FiniteSets, TLC

VARIABLES
    vault,               \* Vault object of the MultiPartyVault, or NoVault
    rules,               \* MultiPartyVault.rules
    withdrawal_history,  \* MultiPartyVault._withdrawal_history
    proofs,              \* GrailProof objects handed out to callers
    key_counter,         \* number of RSA key pairs generated so far
    predicate,           \* a VaultPredicate a caller built and holds
    token_created,       \* whether VaultToken.create_for_vault has run
    balances,            \* VaultToken._balances (absent key = 0)
    allowances,          \* VaultToken._allowances (absent key = 0)
    transfer_history,    \* VaultToken._transfer_history
    proposals,           \* GovernanceSystem.proposals, by creation order
    proposal_counter,    \* GovernanceSystem._proposal_counter
    effects,             \* descriptors execute_proposal returned to callers
    ret                  \* the last call: operation, arguments and outcome

vars == <<vault, rules, withdrawal_history, proofs, key_counter, predicate,
          token_created, balances, allowances, transfer_history, proposals,
          proposal_counter, effects, ret>>

vaultVars == <<vault, rules, withdrawal_history, proofs, key_counter, predicate>>
tokenVars == <<token_created, balances, allowances, transfer_history>>
govVars   == <<proposals, proposal_counter, effects>>

-----------------------------------------------------------------------------
(* Bounds and input domains *)

MaxMembers == 3
MaxProofs == 2
MaxTransfers == 2
MaxProposals == 1
MaxHeight == 3

Pubkeys == {1, 2, 3}
ShareValues == {0, 25, 30, 35, 40, 50, 60, 100}
JoinHeight == 100
CreatedHeight == 100
NoVault == [members |-> <<>>, total_balance |-> -1, created_height |-> -1,
            vault_id |-> <<>>]
NoPredicate == [vault_commitment |-> <<>>, withdrawal_request |-> <<>>]
\* Python's None in an Optional[int] field (heights are never negative)
None == -1

-----------------------------------------------------------------------------
(* Arithmetic helpers *)

\* floor(a * b / c) as Python computes (a * b) // c on unbounded integers,
\* split so that no intermediate product leaves the checker's integer range:
\* a = c*q + r  gives  floor(a*b/c) = q*b + floor(r*b/c).
MulDivFloor(a, b, c) == (a \div c) * b + ((a % c) * b) \div c

RECURSIVE SumShares(_)
SumShares(members) ==
    IF members = <<>> THEN 0
    ELSE Head(members).share_percentage + SumShares(Tail(members))

\* bytes.fromhex(pubkey) of the identities: 1..4 are keys of one length,
\* 5..7 are hex strings of other lengths, which VaultMember accepts as well.
pubkey_bytes(k) ==
    CASE k = 1 -> <<170>>          \* "aa"
      [] k = 2 -> <<187>>          \* "bb"
      [] k = 3 -> <<204>>          \* "cc"
      [] k = 4 -> <<221>>          \* "dd"
      [] k = 5 -> <<17>>           \* "11"
      [] k = 6 -> <<17, 50>>       \* "1132"
      [] k = 7 -> <<50, 187>>      \* "32bb"

\* Order of two byte strings as Python orders their hex strings.
RECURSIVE BytesLess(_, _)
BytesLess(a, b) ==
    IF b = <<>> THEN FALSE
    ELSE IF a = <<>> THEN TRUE
    ELSE IF Head(a) # Head(b) THEN Head(a) < Head(b)
    ELSE BytesLess(Tail(a), Tail(b))

\* int.to_bytes(n, 'little') for 0 <= x < 256^n
RECURSIVE to_bytes(_, _)
to_bytes(x, n) ==
    IF n = 0 THEN <<>> ELSE <<x % 256>> \o to_bytes(x \div 256, n - 1)

RECURSIVE InsertSorted(_, _)
InsertSorted(x, s) ==
    IF s = <<>> THEN <<x>>
    ELSE IF BytesLess(pubkey_bytes(x), pubkey_bytes(Head(s))) THEN <<x>> \o s
    ELSE <<Head(s)>> \o InsertSorted(x, Tail(s))

RECURSIVE SortedPubkeys(_)
SortedPubkeys(members) ==
    IF members = <<>> THEN <<>>
    ELSE InsertSorted(Head(members).pubkey, SortedPubkeys(Tail(members)))

-----------------------------------------------------------------------------
(* src/src/vault.py: VaultMember, Vault *)

\* VaultMember.__post_init__: a member object exists only for 0..100.
VaultMember_ok(m) == 0 <= m.share_percentage /\ m.share_percentage <= 100

RECURSIVE KeyBytes(_)
KeyBytes(keys) ==
    IF keys = <<>> THEN <<>>
    ELSE pubkey_bytes(Head(keys)) \o KeyBytes(Tail(keys))

\* Vault._generate_vault_id: digest of the bytes of the member keys taken
\* in ascending order (the digest is named by the bytes it was fed).
generate_vault_id(members) == KeyBytes(SortedPubkeys(members))

\* Mutant: shares checked against an upper limit only.
Vault_shares_ok_AtMost(members) == SumShares(members) <= 100

\* Vault.__init__ validation: the constructor raises unless this holds.
Vault_shares_ok(members) == SumShares(members) = 100

\* Vault.__init__: the object a successful construction yields.
Vault_init(members) ==
    [members |-> members, total_balance |-> 0, created_height |-> 0,
     vault_id |-> generate_vault_id(members)]

\* The bytes commitment_hash feeds to the hasher for the members, in stored
\* order: key, 1-byte share, 4-byte join height.
RECURSIVE MemberBytes(_)
MemberBytes(members) ==
    IF members = <<>> THEN <<>>
    ELSE pubkey_bytes(Head(members).pubkey)
         \o to_bytes(Head(members).share_percentage, 1)
         \o to_bytes(Head(members).join_height, 4)
         \o MemberBytes(Tail(members))

\* Vault.commitment_hash: digest over the 32 bytes of vault_id followed by
\* the members' bytes, the 8-byte balance and the 4-byte height (the digest
\* is named by the pair of the vault_id and the bytes that follow it).
commitment_hash(v) ==
    <<v.vault_id, MemberBytes(v.members) \o to_bytes(v.total_balance, 8)
                  \o to_bytes(v.created_height, 4)>>

\* Mutant: every identity counts as a member.
is_member_Anyone(v, pubkey) == TRUE

\* Vault.is_member
is_member(v, pubkey) ==
    \E i \in 1..Len(v.members) : v.members[i].pubkey = pubkey

-----------------------------------------------------------------------------
(* src/src/rules.py: WithdrawalRules *)

\* WithdrawalRules.conservative
conservative ==
    [min_signers |-> 2, large_withdrawal_threshold |-> 10000000,
     large_withdrawal_requires_all |-> TRUE,
     early_withdrawal_penalty_bps |-> 1000, penalty_free_height |-> 0,
     emergency_timeout_blocks |-> 52560, max_single_withdrawal |-> 100000000,
     withdrawal_cooling_period |-> 144]

\* WithdrawalRules.permissive
permissive ==
    [min_signers |-> 1, large_withdrawal_threshold |-> 50000000,
     large_withdrawal_requires_all |-> FALSE,
     early_withdrawal_penalty_bps |-> 500, penalty_free_height |-> 0,
     emergency_timeout_blocks |-> 26280, max_single_withdrawal |-> 200000000,
     withdrawal_cooling_period |-> 72]

\* Mutant: the penalty-free height is ignored.
calculate_penalty_Always(r, amount, current_height) ==
    MulDivFloor(amount, r.early_withdrawal_penalty_bps, 10000)

\* WithdrawalRules.calculate_penalty
calculate_penalty(r, amount, current_height) ==
    IF current_height >= r.penalty_free_height THEN 0
    ELSE MulDivFloor(amount, r.early_withdrawal_penalty_bps, 10000)

\* WithdrawalRules.is_large_withdrawal
is_large_withdrawal(r, amount) == amount >= r.large_withdrawal_threshold

\* Mutant: the cooling period has to be exceeded.
check_cooling_period_Strict(r, current_height, last_withdrawal_height, amount) ==
    IF ~(amount >= r.large_withdrawal_threshold) THEN TRUE
    ELSE IF last_withdrawal_height = None THEN TRUE
    ELSE current_height - last_withdrawal_height > r.withdrawal_cooling_period

\* Mutant: the large-withdrawal rule is skipped.
validate_withdrawal_NoLargeRule(r, amount, signers_count, total_members) ==
    IF signers_count < r.min_signers THEN "quorum"
    ELSE IF amount > r.max_single_withdrawal THEN "exceeds_max"
    ELSE "ok"

\* WithdrawalRules.validate_withdrawal: the reason of the first failing
\* check, "ok" when all pass.
validate_withdrawal(r, amount, signers_count, total_members) ==
    IF signers_count < r.min_signers THEN "quorum"
    ELSE IF /\ is_large_withdrawal(r, amount)
            /\ r.large_withdrawal_requires_all
            /\ signers_count # total_members THEN "large_requires_all"
    ELSE IF amount > r.max_single_withdrawal THEN "exceeds_max"
    ELSE "ok"

\* WithdrawalRules.check_cooling_period
check_cooling_period(r, current_height, last_withdrawal_height, amount) ==
    IF ~is_large_withdrawal(r, amount) THEN TRUE
    ELSE IF last_withdrawal_height = None THEN TRUE
    ELSE current_height - last_withdrawal_height >= r.withdrawal_cooling_period

-----------------------------------------------------------------------------
(* src/src/predicate.py: WithdrawalRequest, VaultPredicate *)

SeqToSet(s) == {s[i] : i \in 1..Len(s)}

\* VaultPredicate.__init__: the commitment is captured at construction; the
\* vault and the rules are kept by reference (pred holds neither: the live
\* objects are passed to predicate_verify).
VaultPredicate(v, request) ==
    [vault_commitment |-> commitment_hash(v), withdrawal_request |-> request]

\* Mutant: on the emergency path the signer count is checked before the
\* timeout.
predicate_verify_EmergencySignersFirst(pred, v, r) ==
    LET req == pred.withdrawal_request
        unique_signers == SeqToSet(req.signers)
        blocks_since_creation == req.current_height - v.created_height
        validation == validate_withdrawal(r, req.amount,
                          Cardinality(unique_signers), Len(v.members))
        net_withdrawal == req.amount
                          - calculate_penalty(r, req.amount, req.current_height)
    IN  IF pred.vault_commitment # commitment_hash(v) THEN "commitment_mismatch"
        ELSE IF \E i \in 1..Len(req.signers) : ~is_member(v, req.signers[i])
             THEN "non_member"
        ELSE IF Cardinality(unique_signers) # Len(req.signers)
             THEN "duplicate_signers"
        ELSE IF req.is_emergency
             THEN IF Cardinality(unique_signers) >= 2
                  THEN IF blocks_since_creation >= r.emergency_timeout_blocks
                       THEN "ok"
                       ELSE "emergency_timeout"
                  ELSE "emergency_signers"
        ELSE IF validation # "ok" THEN validation
        ELSE IF ~check_cooling_period(r, req.current_height,
                                      req.last_withdrawal_height, req.amount)
             THEN "cooling_period"
        ELSE IF net_withdrawal > v.total_balance THEN "insufficient_balance"
        ELSE "ok"

\* Mutant: signers are counted as listed, a repeated one as often as listed.
predicate_verify_CountsRepeats(pred, v, r) ==
    LET req == pred.withdrawal_request
        blocks_since_creation == req.current_height - v.created_height
        validation == validate_withdrawal(r, req.amount,
                          Len(req.signers), Len(v.members))
        net_withdrawal == req.amount
                          - calculate_penalty(r, req.amount, req.current_height)
    IN  IF pred.vault_commitment # commitment_hash(v) THEN "commitment_mismatch"
        ELSE IF \E i \in 1..Len(req.signers) : ~is_member(v, req.signers[i])
             THEN "non_member"
        ELSE IF req.is_emergency
             THEN IF blocks_since_creation >= r.emergency_timeout_blocks
                  THEN IF Len(req.signers) >= 2 THEN "ok"
                       ELSE "emergency_signers"
                  ELSE "emergency_timeout"
        ELSE IF validation # "ok" THEN validation
        ELSE IF ~check_cooling_period(r, req.current_height,
                                      req.last_withdrawal_height, req.amount)
             THEN "cooling_period"
        ELSE IF net_withdrawal > v.total_balance THEN "insufficient_balance"
        ELSE "ok"

\* Mutant: the balance is compared with the gross amount.
predicate_verify_GrossBalance(pred, v, r) ==
    LET req == pred.withdrawal_request
        unique_signers == SeqToSet(req.signers)
        blocks_since_creation == req.current_height - v.created_height
        validation == validate_withdrawal(r, req.amount,
                          Cardinality(unique_signers), Len(v.members))
    IN  IF pred.vault_commitment # commitment_hash(v) THEN "commitment_mismatch"
        ELSE IF \E i \in 1..Len(req.signers) : ~is_member(v, req.signers[i])
             THEN "non_member"
        ELSE IF Cardinality(unique_signers) # Len(req.signers)
             THEN "duplicate_signers"
        ELSE IF req.is_emergency
             THEN IF blocks_since_creation >= r.emergency_timeout_blocks
                  THEN IF Cardinality(unique_signers) >= 2 THEN "ok"
                       ELSE "emergency_signers"
                  ELSE "emergency_timeout"
        ELSE IF validation # "ok" THEN validation
        ELSE IF ~check_cooling_period(r, req.current_height,
                                      req.last_withdrawal_height, req.amount)
             THEN "cooling_period"
        ELSE IF req.amount > v.total_balance THEN "insufficient_balance"
        ELSE "ok"

\* VaultPredicate.verify on the live vault v and rules r: the reason of the
\* first failing check, "ok" when the withdrawal is approved.
predicate_verify(pred, v, r) ==
    LET req == pred.withdrawal_request
        unique_signers == SeqToSet(req.signers)
        blocks_since_creation == req.current_height - v.created_height
        validation == validate_withdrawal(r, req.amount,
                          Cardinality(unique_signers), Len(v.members))
        net_withdrawal == req.amount
                          - calculate_penalty(r, req.amount, req.current_height)
    IN  IF pred.vault_commitment # commitment_hash(v) THEN "commitment_mismatch"
        ELSE IF \E i \in 1..Len(req.signers) : ~is_member(v, req.signers[i])
             THEN "non_member"
        ELSE IF Cardinality(unique_signers) # Len(req.signers)
             THEN "duplicate_signers"
        ELSE IF req.is_emergency
             THEN IF blocks_since_creation >= r.emergency_timeout_blocks
                  THEN IF Cardinality(unique_signers) >= 2 THEN "ok"
                       ELSE "emergency_signers"
                  ELSE "emergency_timeout"
        ELSE IF validation # "ok" THEN validation
        ELSE IF ~check_cooling_period(r, req.current_height,
                                      req.last_withdrawal_height, req.amount)
             THEN "cooling_period"
        ELSE IF net_withdrawal > v.total_balance THEN "insufficient_balance"
        ELSE "ok"

\* VaultPredicate.get_net_withdrawal_amount
get_net_withdrawal_amount(pred, r) ==
    pred.withdrawal_request.amount
    - calculate_penalty(r, pred.withdrawal_request.amount,
                        pred.withdrawal_request.current_height)

-----------------------------------------------------------------------------
(* src/src/bos_stack/grail_pro.py: VaultCircuit, ProofSystem, GrailProof *)

\* rsa.generate_private_key: every call yields a key pair no earlier call
\* yielded; kc is the number of pairs generated before the call.
generate_private_key(kc) == kc + 1

\* The SHA-256 digest ProofSystem.prove and ProofSystem.verify build from
\* VaultCircuit.public_inputs, private_inputs and synthesize, all read from
\* the live vault v and rules r at the time of the call.
circuit_digest(pred, v, r) ==
    [public  |-> <<commitment_hash(v), pred.withdrawal_request.amount,
                   pred.withdrawal_request.current_height>>,
     private |-> <<pred.withdrawal_request.signers, r>>,
     marker  |-> (predicate_verify(pred, v, r) = "ok")]

\* ProofSystem.prove: the digest, signed under a key pair generated in the
\* call.
ProofSystem_prove(pred, v, r, kc) ==
    [proof_hash |-> circuit_digest(pred, v, r),
     signing_key |-> generate_private_key(kc)]

\* ProofSystem.generate_verification_key: the public key of a key pair
\* generated in the call.
ProofSystem_generate_verification_key(kc) == generate_private_key(kc)

\* GrailProof.generate, after its predicate re-check: prove, then
\* generate_verification_key; two key pairs are generated.
GrailProof_generate(pred, v, r, kc) ==
    LET proof_data == ProofSystem_prove(pred, v, r, kc)
        verification_key ==
            ProofSystem_generate_verification_key(proof_data.signing_key)
    IN  [predicate |-> pred,
         proof_hash |-> proof_data.proof_hash,
         signing_key |-> proof_data.signing_key,
         verification_key |-> verification_key]

\* ProofSystem.verify: the digest is recomputed from the live vault and
\* rules and compared, then the signature is checked under the key stored in
\* the proof.
ProofSystem_verify(proof, v, r) ==
    /\ proof.proof_hash = circuit_digest(proof.predicate, v, r)
    /\ proof.signing_key = proof.verification_key

\* Mutant: the proof's own validity marker is trusted; neither the
\* commitment nor the digest nor the signature is checked.
GrailProof_verify_MarkerOnly(proof, vault_commitment, v, r) ==
    proof.proof_hash.marker

\* GrailProof.verify
GrailProof_verify(proof, vault_commitment, v, r) ==
    IF proof.predicate.vault_commitment # vault_commitment THEN FALSE
    ELSE ProofSystem_verify(proof, v, r)

\* MultiPartyVault.verify_withdrawal
verify_withdrawal(proof, v, r) ==
    GrailProof_verify(proof, commitment_hash(v), v, r)

-----------------------------------------------------------------------------
(* Calls on a MultiPartyVault *)

Result(op, ok, reason, arg) ==
    [op |-> op, ok |-> ok, reason |-> reason, arg |-> arg]

Member(k, share) ==
    [pubkey |-> k, share_percentage |-> share, join_height |-> JoinHeight]

MemberAt(k, share, join_height) ==
    [pubkey |-> k, share_percentage |-> share, join_height |-> join_height]

\* Every member list of at most MaxMembers members over the input domains.
MemberLists ==
    UNION {[1..n -> {Member(k, s) : k \in Pubkeys, s \in ShareValues}]
           : n \in 0..MaxMembers}

\* MultiPartyVault(members, rules): Vault.__init__ raises, and no vault
\* exists, unless the shares sum to 100.
NewVault(members, r) ==
    /\ vault = NoVault
    /\ \A i \in 1..Len(members) : VaultMember_ok(members[i])
    /\ IF Vault_shares_ok(members)
       THEN /\ vault' = Vault_init(members)
            /\ rules' = r
            /\ ret' = Result("new_vault", TRUE, "ok", members)
       ELSE /\ UNCHANGED <<vault, rules>>
            /\ ret' = Result("new_vault", FALSE, "shares", members)
    /\ UNCHANGED <<withdrawal_history, proofs, key_counter, predicate, tokenVars,
                   govVars>>

\* vault.vault.total_balance = b   (web_interface/app.py, create_vault; the
\* tests and demo.py fund and debit the vault the same way)
SetTotalBalance(b) ==
    /\ vault # NoVault
    /\ vault' = [vault EXCEPT !.total_balance = b]
    /\ ret' = Result("set_total_balance", TRUE, "ok", b)
    /\ UNCHANGED <<rules, withdrawal_history, proofs, key_counter, predicate,
                   tokenVars, govVars>>

\* vault.vault.created_height = h
SetCreatedHeight(h) ==
    /\ vault # NoVault
    /\ vault' = [vault EXCEPT !.created_height = h]
    /\ ret' = Result("set_created_height", TRUE, "ok", h)
    /\ UNCHANGED <<rules, withdrawal_history, proofs, key_counter, predicate,
                   tokenVars, govVars>>

\* MultiPartyVault.create_withdrawal_proof: raises unless the predicate
\* evaluates valid; VaultCircuit.public_inputs raises OverflowError for an
\* amount or height that does not fit its unsigned field.
CreateWithdrawalProof(request) ==
    LET pred == VaultPredicate(vault, request)
        reason == predicate_verify(pred, vault, rules)
    IN  /\ vault # NoVault
        /\ Len(proofs) < MaxProofs
        /\ IF reason # "ok"
           THEN /\ ret' = Result("create_withdrawal_proof", FALSE, reason, request)
                /\ UNCHANGED <<proofs, key_counter>>
           ELSE IF request.amount < 0 \/ request.current_height < 0
           THEN /\ ret' = Result("create_withdrawal_proof", FALSE, "overflow",
                                 request)
                /\ UNCHANGED <<proofs, key_counter>>
           ELSE /\ proofs' = Append(proofs,
                        GrailProof_generate(pred, vault, rules, key_counter))
                /\ key_counter' = key_counter + 2
                /\ ret' = Result("create_withdrawal_proof", TRUE, "ok", request)
        /\ UNCHANGED <<vault, rules, withdrawal_history, predicate, tokenVars,
                       govVars>>

\* MultiPartyVault.verify_withdrawal on the i-th proof handed out
VerifyWithdrawal(i) ==
    /\ vault # NoVault
    /\ i \in 1..Len(proofs)
    /\ ret' = Result("verify_withdrawal",
                     verify_withdrawal(proofs[i], vault, rules), "", i)
    /\ UNCHANGED <<vaultVars, tokenVars, govVars>>

\* Mutant: the withdrawal is booked without verifying the proof or looking
\* at the balance.
ExecuteWithdrawal_NoChecks(i) ==
    LET proof == proofs[i]
        req == proof.predicate.withdrawal_request
        withdrawal_amount == get_net_withdrawal_amount(proof.predicate, rules)
    IN  /\ vault # NoVault
        /\ i \in 1..Len(proofs)
        /\ Len(withdrawal_history) < MaxProofs
        /\ vault' = [vault EXCEPT !.total_balance = @ - withdrawal_amount]
        /\ withdrawal_history' = Append(withdrawal_history,
               [amount |-> withdrawal_amount,
                height |-> req.current_height,
                signers |-> req.signers,
                timestamp |-> req.current_height])
        /\ ret' = Result("execute_withdrawal", TRUE, "ok", i)
        /\ UNCHANGED <<rules, proofs, key_counter, predicate, tokenVars, govVars>>

\* MultiPartyVault.execute_withdrawal on the i-th proof handed out
ExecuteWithdrawal(i) ==
    LET proof == proofs[i]
        req == proof.predicate.withdrawal_request
        withdrawal_amount == get_net_withdrawal_amount(proof.predicate, rules)
    IN  /\ vault # NoVault
        /\ i \in 1..Len(proofs)
        /\ Len(withdrawal_history) < MaxProofs
        /\ IF ~verify_withdrawal(proof, vault, rules)
           THEN /\ ret' = Result("execute_withdrawal", FALSE, "invalid_proof", i)
                /\ UNCHANGED <<vault, withdrawal_history>>
           ELSE IF withdrawal_amount > vault.total_balance
           THEN /\ ret' = Result("execute_withdrawal", FALSE,
                                 "insufficient_balance", i)
                /\ UNCHANGED <<vault, withdrawal_history>>
           ELSE /\ vault' = [vault EXCEPT !.total_balance = @ - withdrawal_amount]
                /\ withdrawal_history' = Append(withdrawal_history,
                       [amount |-> withdrawal_amount,
                        height |-> req.current_height,
                        signers |-> req.signers,
                        timestamp |-> req.current_height])
                /\ ret' = Result("execute_withdrawal", TRUE, "ok", i)
        /\ UNCHANGED <<rules, proofs, key_counter, predicate, tokenVars, govVars>>

\* demo.py, "Simulate successful withdrawal": the caller evaluates the
\* predicate of a request and, when it is valid, debits the request's amount
\* and appends the record to the history itself.
SimulatedWithdrawal(request) ==
    LET pred == VaultPredicate(vault, request)
        reason == predicate_verify(pred, vault, rules)
    IN  /\ vault # NoVault
        /\ Len(withdrawal_history) < MaxProofs
        /\ predicate' = pred
        /\ IF reason = "ok"
           THEN /\ vault' = [vault EXCEPT !.total_balance = @ - request.amount]
                /\ withdrawal_history' = Append(withdrawal_history,
                       [amount |-> request.amount,
                        height |-> request.current_height,
                        signers |-> request.signers,
                        timestamp |-> request.current_height])
                /\ ret' = Result("simulated_withdrawal", TRUE, "ok", request)
           ELSE /\ UNCHANGED <<vault, withdrawal_history>>
                /\ ret' = Result("simulated_withdrawal", FALSE, reason, request)
        /\ UNCHANGED <<rules, proofs, key_counter, tokenVars, govVars>>

\* vault.vault.commitment_hash(), called on the vault as it stands
CommitmentHash ==
    /\ vault # NoVault
    /\ ret' = Result("commitment_hash", TRUE, "ok", commitment_hash(vault))
    /\ UNCHANGED <<vaultVars, tokenVars, govVars>>

\* VaultPredicate(vault, rules, request), built by a caller
NewPredicate(request) ==
    /\ vault # NoVault
    /\ predicate' = VaultPredicate(vault, request)
    /\ ret' = Result("new_predicate", TRUE, "ok", 0)
    /\ UNCHANGED <<vault, rules, withdrawal_history, proofs, key_counter,
                   tokenVars, govVars>>

\* predicate.verify() on the predicate the caller holds
PredicateVerify ==
    LET reason == predicate_verify(predicate, vault, rules)
    IN  /\ vault # NoVault
        /\ predicate # NoPredicate
        /\ ret' = Result("predicate_verify", reason = "ok", reason, 0)
        /\ UNCHANGED <<vaultVars, tokenVars, govVars>>

\* Mutant: the predicate is not evaluated before the proof is built.
GenerateProof_NoCheck ==
    /\ vault # NoVault
    /\ predicate # NoPredicate
    /\ Len(proofs) < MaxProofs
    /\ proofs' = Append(proofs,
                        GrailProof_generate(predicate, vault, rules, key_counter))
    /\ key_counter' = key_counter + 2
    /\ ret' = Result("generate_proof", TRUE, "ok", 0)
    /\ UNCHANGED <<vault, rules, withdrawal_history, predicate, tokenVars,
                   govVars>>

\* GrailProof.generate(predicate, vault) on the predicate the caller holds:
\* raises unless the predicate evaluates valid now.
GenerateProof ==
    LET reason == predicate_verify(predicate, vault, rules)
        request == predicate.withdrawal_request
    IN  /\ vault # NoVault
        /\ predicate # NoPredicate
        /\ Len(proofs) < MaxProofs
        /\ IF reason # "ok"
           THEN /\ ret' = Result("generate_proof", FALSE, reason, 0)
                /\ UNCHANGED <<proofs, key_counter>>
           ELSE IF request.amount < 0 \/ request.current_height < 0
           THEN /\ ret' = Result("generate_proof", FALSE, "overflow", 0)
                /\ UNCHANGED <<proofs, key_counter>>
           ELSE /\ proofs' = Append(proofs,
                        GrailProof_generate(predicate, vault, rules, key_counter))
                /\ key_counter' = key_counter + 2
                /\ ret' = Result("generate_proof", TRUE, "ok", 0)
        /\ UNCHANGED <<vault, rules, withdrawal_history, predicate, tokenVars,
                       govVars>>

\* rules.penalty_free_height = h on the rules object the vault and its
\* predicates share (tests/test_rules.py)
SetPenaltyFreeHeight(h) ==
    /\ rules' = [rules EXCEPT !.penalty_free_height = h]
    /\ ret' = Result("set_penalty_free_height", TRUE, "ok", h)
    /\ UNCHANGED <<vault, withdrawal_history, proofs, key_counter, predicate,
                   tokenVars, govVars>>

\* rules.validate_withdrawal(amount, signers_count, total_members)
ValidateWithdrawal(amount, signers_count, total_members) ==
    LET reason == validate_withdrawal(rules, amount, signers_count, total_members)
    IN  /\ ret' = Result("validate_withdrawal", reason = "ok", reason,
                         <<amount, signers_count, total_members>>)
        /\ UNCHANGED <<vaultVars, tokenVars, govVars>>

\* rules.calculate_penalty(amount, current_height); the record keeps the
\* value returned.
CalculatePenalty(amount, current_height) ==
    /\ ret' = Result("calculate_penalty", TRUE, "",
                     <<amount, current_height,
                       calculate_penalty(rules, amount, current_height)>>)
    /\ UNCHANGED <<vaultVars, tokenVars, govVars>>

\* rules.check_cooling_period(current_height, last_withdrawal_height,
\* amount); the record keeps the value returned.
CheckCoolingPeriod(current_height, last_withdrawal_height, amount) ==
    /\ ret' = Result("check_cooling_period",
                     check_cooling_period(rules, current_height,
                                          last_withdrawal_height, amount),
                     "", <<current_height, last_withdrawal_height, amount>>)
    /\ UNCHANGED <<vaultVars, tokenVars, govVars>>

-----------------------------------------------------------------------------
(* src/src/bos_stack/charms.py: VaultToken *)

\* VaultToken.create_for_vault: 100M tokens = 100% of vault
TotalSupply == 100000000

\* VaultToken._mint_initial_tokens: one assignment per member, in stored
\* order, to the slot of the member's key.
RECURSIVE mint_initial_tokens(_, _)
mint_initial_tokens(members, bal) ==
    IF members = <<>> THEN bal
    ELSE mint_initial_tokens(Tail(members),
             [bal EXCEPT ![Head(members).pubkey] =
                  MulDivFloor(TotalSupply, Head(members).share_percentage, 100)])

\* VaultToken.balance_of
balance_of(bal, pubkey) == bal[pubkey]

\* Mutant: the sender's balance is not checked.
transfer_ok_NoBalanceCheck(bal, from_pubkey, amount) == ~(amount <= 0)

\* VaultToken.transfer: whether the call returns True
transfer_ok(bal, from_pubkey, amount) ==
    ~(amount <= 0) /\ ~(balance_of(bal, from_pubkey) < amount)

\* VaultToken.transfer: the balance table after a successful call; the
\* credit reads the recipient's slot after the debit was written.
transfer_balances(bal, from_pubkey, to_pubkey, amount) ==
    LET debited == [bal EXCEPT ![from_pubkey] = balance_of(bal, from_pubkey) - amount]
    IN  [debited EXCEPT ![to_pubkey] = balance_of(debited, to_pubkey) + amount]

\* Mutant: every spender is allowed the whole supply.
allowance_Unlimited(alw, owner, spender) == TotalSupply

\* VaultToken.allowance
allowance(alw, owner, spender) == alw[<<owner, spender>>]

RECURSIVE SumOver(_, _)
SumOver(f, S) ==
    IF S = {} THEN 0
    ELSE LET x == CHOOSE y \in S : TRUE IN f[x] + SumOver(f, S \ {x})

SumBalances == SumOver(balances, Pubkeys)

TransferAmounts == {-43000000, 0, 43000000, 57000000}
ApproveAmounts == {43000000, 60000000}
Owners == {1, 2}
Spenders == {2}

\* VaultToken.create_for_vault(vault)
CreateForVault ==
    /\ vault # NoVault
    /\ ~token_created
    /\ token_created' = TRUE
    /\ balances' = mint_initial_tokens(vault.members, [k \in Pubkeys |-> 0])
    /\ allowances' = [pr \in Pubkeys \X Pubkeys |-> 0]
    /\ transfer_history' = <<>>
    /\ ret' = Result("create_for_vault", TRUE, "ok", 0)
    /\ UNCHANGED <<vaultVars, govVars>>

\* VaultToken.transfer(from_pubkey, to_pubkey, amount)
Transfer(from_pubkey, to_pubkey, amount) ==
    /\ token_created
    /\ Len(transfer_history) < MaxTransfers
    /\ IF transfer_ok(balances, from_pubkey, amount)
       THEN /\ balances' = transfer_balances(balances, from_pubkey, to_pubkey, amount)
            /\ transfer_history' = Append(transfer_history,
                   [from |-> from_pubkey, to |-> to_pubkey, amount |-> amount,
                    timestamp |-> Len(transfer_history)])
            /\ ret' = Result("transfer", TRUE, "ok", <<from_pubkey, to_pubkey, amount>>)
       ELSE /\ UNCHANGED <<balances, transfer_history>>
            /\ ret' = Result("transfer", FALSE, "", <<from_pubkey, to_pubkey, amount>>)
    /\ UNCHANGED <<token_created, allowances, vaultVars, govVars>>

\* VaultToken.approve(owner, spender, amount)
Approve(owner, spender, amount) ==
    /\ token_created
    /\ allowances' = [allowances EXCEPT ![<<owner, spender>>] = amount]
    /\ ret' = Result("approve", TRUE, "ok", <<owner, spender, amount>>)
    /\ UNCHANGED <<token_created, balances, transfer_history, vaultVars, govVars>>

\* VaultToken.transfer_from(spender, from_pubkey, to_pubkey, amount)
TransferFrom(spender, from_pubkey, to_pubkey, amount) ==
    LET allowed == allowance(allowances, from_pubkey, spender)
    IN  /\ token_created
        /\ Len(transfer_history) < MaxTransfers
        /\ IF allowed < amount
           THEN /\ UNCHANGED <<balances, transfer_history, allowances>>
                /\ ret' = Result("transfer_from", FALSE, "allowance",
                                 <<spender, from_pubkey, to_pubkey, amount>>)
           ELSE IF ~transfer_ok(balances, from_pubkey, amount)
           THEN /\ UNCHANGED <<balances, transfer_history, allowances>>
                /\ ret' = Result("transfer_from", FALSE, "transfer",
                                 <<spender, from_pubkey, to_pubkey, amount>>)
           ELSE /\ balances' = transfer_balances(balances, from_pubkey, to_pubkey, amount)
                /\ transfer_history' = Append(transfer_history,
                       [from |-> from_pubkey, to |-> to_pubkey, amount |-> amount,
                        timestamp |-> Len(transfer_history)])
                /\ allowances' = [allowances EXCEPT
                                     ![<<from_pubkey, spender>>] = allowed - amount]
                /\ ret' = Result("transfer_from", TRUE, "ok",
                                 <<spender, from_pubkey, to_pubkey, amount>>)
        /\ UNCHANGED <<token_created, vaultVars, govVars>>

-----------------------------------------------------------------------------
(* src/src/bos_stack/charms.py: GovernanceSystem *)

ProposalTypes == {"change_withdrawal_rules", "add_member", "remove_member",
                  "emergency_exit", "upgrade_vault"}
RequiredPowers == {0, 57}
Proposers == {1, 3}
GovSenders == {1}
GovRecipients == {3}
GovTransferAmounts == {57000000}
VotingPeriods == {1}
ExecutionDelays == {1}
CreateHeights == {0}
Heights == 0..MaxHeight
ProposalIds == 1..(MaxProposals + 1)

\* One percent of the supply, in token units.
PercentUnit == TotalSupply \div 100

\* The whole percentages k for which (k * PercentUnit / TotalSupply) * 100,
\* evaluated in IEEE-754 double precision as Python evaluates it, is below k:
\* 0.29 * 100 = 28.999999999999996, 0.57 * 100 = 56.99999999999999,
\* 0.58 * 100 = 57.99999999999999.  For every other k in 0..100 the result
\* is k or just above k.
FloatRoundsBelow == {29, 57, 58}

\* Mutant: the percentage has to be exceeded.
percentage_ge_Strict(amount, pct) == amount > pct * PercentUnit

\* (amount / total_supply) * 100 >= pct, for a whole percentage pct, in
\* double precision.  amount * 100 and pct * total_supply are integers, so
\* when they differ the quotient is at least 1e-8 away from pct, far more
\* than the rounding error, and the exact comparison decides; when they are
\* equal the rounding of the two operations decides.
percentage_ge(amount, pct) ==
    IF amount = pct * PercentUnit THEN pct \notin FloatRoundsBelow
    ELSE amount > pct * PercentUnit

\* GovernanceSystem.create_proposal: min_proposal_power = 5.0
MinProposalPower == 5

\* GovernanceProposal as create_proposal builds it
NewProposal(proposer, type, current_height, required, period, delay) ==
    [proposer |-> proposer, proposal_type |-> type,
     required_voting_power |-> required,
     voting_period_blocks |-> period, execution_delay_blocks |-> delay,
     status |-> "active", votes_for |-> 0, votes_against |-> 0,
     voters |-> <<>>, created_at_height |-> current_height,
     voting_ends_at_height |-> current_height + period,
     execution_height |-> None]

\* GovernanceSystem._execute_proposal_action: the action of the descriptor
execute_proposal_action(proposal) ==
    IF proposal.proposal_type = "change_withdrawal_rules" THEN "rules_updated"
    ELSE IF proposal.proposal_type = "add_member" THEN "member_added"
    ELSE IF proposal.proposal_type = "remove_member" THEN "member_removed"
    ELSE IF proposal.proposal_type = "emergency_exit" THEN "emergency_exit_executed"
    ELSE "unknown"

\* GovernanceSystem.create_proposal
CreateProposal(proposer, type, current_height, required, period, delay) ==
    /\ token_created
    /\ Len(proposals) < MaxProposals
    /\ IF ~percentage_ge(balance_of(balances, proposer), MinProposalPower)
       THEN /\ UNCHANGED <<proposals, proposal_counter>>
            /\ ret' = Result("create_proposal", FALSE, "proposer_power", proposer)
       ELSE /\ proposal_counter' = proposal_counter + 1
            /\ proposals' = Append(proposals,
                   NewProposal(proposer, type, current_height, required, period, delay))
            /\ ret' = Result("create_proposal", TRUE, "ok", proposal_counter + 1)
    /\ UNCHANGED <<effects, vaultVars, tokenVars>>

\* Mutant: a vote after the voting period is refused without a change.
vote_proposal_LateVoteIgnored(proposal, voter, vote_for, current_height, voting_power) ==
    IF current_height > proposal.voting_ends_at_height THEN proposal
    ELSE IF voter \in SeqToSet(proposal.voters) THEN proposal
    ELSE IF voting_power = 0 THEN proposal
    ELSE IF vote_for
    THEN [proposal EXCEPT !.voters = Append(@, voter),
                          !.votes_for = @ + voting_power]
    ELSE [proposal EXCEPT !.voters = Append(@, voter),
                          !.votes_against = @ + voting_power]

\* Mutant: a vote weighs the voter's percentage, not the balance.
vote_proposal_ShareWeight(proposal, voter, vote_for, current_height, voting_power) ==
    IF current_height > proposal.voting_ends_at_height
    THEN [proposal EXCEPT !.status = "rejected"]
    ELSE IF voter \in SeqToSet(proposal.voters) THEN proposal
    ELSE IF voting_power = 0 THEN proposal
    ELSE IF vote_for
    THEN [proposal EXCEPT !.voters = Append(@, voter),
                          !.votes_for = @ + voting_power \div PercentUnit]
    ELSE [proposal EXCEPT !.voters = Append(@, voter),
                          !.votes_against = @ + voting_power \div PercentUnit]

\* Mutant: no check that the voter has voted already.
vote_proposal_NoVoterCheck(proposal, voter, vote_for, current_height, voting_power) ==
    IF current_height > proposal.voting_ends_at_height
    THEN [proposal EXCEPT !.status = "rejected"]
    ELSE IF voting_power = 0 THEN proposal
    ELSE IF vote_for
    THEN [proposal EXCEPT !.voters = Append(@, voter),
                          !.votes_for = @ + voting_power]
    ELSE [proposal EXCEPT !.voters = Append(@, voter),
                          !.votes_against = @ + voting_power]

\* Mutant: a voter without tokens is recorded with weight 0.
vote_proposal_NoPowerCheck(proposal, voter, vote_for, current_height, voting_power) ==
    IF current_height > proposal.voting_ends_at_height
    THEN [proposal EXCEPT !.status = "rejected"]
    ELSE IF voter \in SeqToSet(proposal.voters) THEN proposal
    ELSE IF vote_for
    THEN [proposal EXCEPT !.voters = Append(@, voter),
                          !.votes_for = @ + voting_power]
    ELSE [proposal EXCEPT !.voters = Append(@, voter),
                          !.votes_against = @ + voting_power]

\* GovernanceSystem.vote: the proposal after the call
vote_proposal(proposal, voter, vote_for, current_height, voting_power) ==
    IF current_height > proposal.voting_ends_at_height
    THEN [proposal EXCEPT !.status = "rejected"]
    ELSE IF voter \in SeqToSet(proposal.voters) THEN proposal
    ELSE IF voting_power = 0 THEN proposal
    ELSE IF vote_for
    THEN [proposal EXCEPT !.voters = Append(@, voter),
                          !.votes_for = @ + voting_power]
    ELSE [proposal EXCEPT !.voters = Append(@, voter),
                          !.votes_against = @ + voting_power]

\* GovernanceSystem.vote: the value returned
vote_result(proposal, voter, current_height, voting_power) ==
    /\ ~(current_height > proposal.voting_ends_at_height)
    /\ voter \notin SeqToSet(proposal.voters)
    /\ voting_power # 0

\* GovernanceSystem.vote
Vote(proposal_id, voter, vote_for, current_height) ==
    /\ token_created
    /\ IF proposal_id \notin 1..Len(proposals)
       THEN /\ UNCHANGED proposals
            /\ ret' = Result("vote", FALSE, "not_found",
                             <<proposal_id, voter, current_height>>)
       ELSE LET proposal == proposals[proposal_id]
                voting_power == balance_of(balances, voter)
            IN  /\ proposals' = [proposals EXCEPT ![proposal_id] =
                       vote_proposal(proposal, voter, vote_for, current_height,
                                     voting_power)]
                /\ ret' = Result("vote",
                       vote_result(proposal, voter, current_height, voting_power),
                       "", <<proposal_id, voter, current_height>>)
    /\ UNCHANGED <<proposal_counter, effects, vaultVars, tokenVars>>

\* Mutant: the end of the voting period is not awaited.
finalize_NoPeriodCheck(proposal, current_height) ==
    IF proposal.votes_for + proposal.votes_against = 0
    THEN [proposal EXCEPT !.status = "rejected"]
    ELSE IF percentage_ge(proposal.votes_for, proposal.required_voting_power)
    THEN [proposal EXCEPT !.status = "passed",
              !.execution_height = current_height + proposal.execution_delay_blocks]
    ELSE [proposal EXCEPT !.status = "rejected"]

\* Mutant: a proposal without votes is measured against the required power.
finalize_NoZeroCheck(proposal, current_height) ==
    IF current_height <= proposal.voting_ends_at_height THEN proposal
    ELSE IF percentage_ge(proposal.votes_for, proposal.required_voting_power)
    THEN [proposal EXCEPT !.status = "passed",
              !.execution_height = current_height + proposal.execution_delay_blocks]
    ELSE [proposal EXCEPT !.status = "rejected"]

\* GovernanceSystem.finalize_proposal: the proposal after the call
finalize(proposal, current_height) ==
    IF current_height <= proposal.voting_ends_at_height THEN proposal
    ELSE IF proposal.votes_for + proposal.votes_against = 0
    THEN [proposal EXCEPT !.status = "rejected"]
    ELSE IF percentage_ge(proposal.votes_for, proposal.required_voting_power)
    THEN [proposal EXCEPT !.status = "passed",
              !.execution_height = current_height + proposal.execution_delay_blocks]
    ELSE [proposal EXCEPT !.status = "rejected"]

\* GovernanceSystem.finalize_proposal: the value returned
finalize_result(proposal, current_height) ==
    /\ ~(current_height <= proposal.voting_ends_at_height)
    /\ proposal.votes_for + proposal.votes_against # 0

\* GovernanceSystem.finalize_proposal
FinalizeProposal(proposal_id, current_height) ==
    /\ token_created
    /\ IF proposal_id \notin 1..Len(proposals)
       THEN /\ UNCHANGED proposals
            /\ ret' = Result("finalize_proposal", FALSE, "not_found",
                             <<proposal_id, current_height>>)
       ELSE /\ proposals' = [proposals EXCEPT ![proposal_id] =
                                 finalize(@, current_height)]
            /\ ret' = Result("finalize_proposal",
                             finalize_result(proposals[proposal_id], current_height),
                             "", <<proposal_id, current_height>>)
    /\ UNCHANGED <<proposal_counter, effects, vaultVars, tokenVars>>

\* Mutant: the execution delay is not checked.
execute_check_NoDelay(proposal, current_height) ==
    IF proposal.status # "passed" THEN "not_passed" ELSE "ok"

\* Mutant: the status is not checked.
execute_check_NoStatus(proposal, current_height) ==
    IF proposal.execution_height = None
       \/ current_height < proposal.execution_height THEN "delay_not_met"
    ELSE "ok"

\* GovernanceSystem.execute_proposal: the error raised, "ok" when none is
execute_check(proposal, current_height) ==
    IF proposal.status # "passed" THEN "not_passed"
    ELSE IF proposal.execution_height = None
            \/ current_height < proposal.execution_height THEN "delay_not_met"
    ELSE "ok"

\* Mutant: executing applies the effect to the rules.
ExecuteProposal_AppliesEffect(proposal_id, current_height) ==
    /\ token_created
    /\ proposal_id \in 1..Len(proposals)
    /\ execute_check(proposals[proposal_id], current_height) = "ok"
    /\ proposals' = [proposals EXCEPT ![proposal_id].status = "executed"]
    /\ rules' = permissive
    /\ ret' = Result("execute_proposal", TRUE,
                     execute_proposal_action(proposals[proposal_id]),
                     <<proposal_id, current_height>>)
    /\ effects' = effects \cup
           {<<proposal_id, execute_proposal_action(proposals[proposal_id])>>}
    /\ UNCHANGED <<proposal_counter, vault, withdrawal_history, proofs,
                   key_counter, predicate, tokenVars>>

\* GovernanceSystem.execute_proposal
ExecuteProposal(proposal_id, current_height) ==
    /\ token_created
    /\ IF proposal_id \notin 1..Len(proposals)
       THEN /\ UNCHANGED <<proposals, effects>>
            /\ ret' = Result("execute_proposal", FALSE, "not_found",
                             <<proposal_id, current_height>>)
       ELSE LET proposal == proposals[proposal_id]
                check == execute_check(proposal, current_height)
            IN  IF check # "ok"
                THEN /\ UNCHANGED <<proposals, effects>>
                     /\ ret' = Result("execute_proposal", FALSE, check,
                                      <<proposal_id, current_height>>)
                ELSE /\ proposals' = [proposals EXCEPT
                                         ![proposal_id].status = "executed"]
                     /\ effects' = effects \cup
                            {<<proposal_id, execute_proposal_action(proposal)>>}
                     /\ ret' = Result("execute_proposal", TRUE,
                                      execute_proposal_action(proposal),
                                      <<proposal_id, current_height>>)
    /\ UNCHANGED <<proposal_counter, vaultVars, tokenVars>>

-----------------------------------------------------------------------------
(* Specifications *)

RulePresets == {conservative, permissive}

\* The vault of the tests and examples, a two-member vault, and a vault
\* whose two members carry the same key.
ExampleMembers == <<Member(1, 40), Member(2, 35), Member(3, 25)>>
TwoMembers == <<Member(1, 57), Member(2, 43)>>
SameKeyMembers == <<Member(1, 60), Member(1, 40)>>

\* The vaults the constructor yields for the given member lists.
Constructed(lists) ==
    {Vault_init(m) : m \in {l \in lists :
        /\ \A i \in 1..Len(l) : VaultMember_ok(l[i])
        /\ Vault_shares_ok(l)}}

BalanceValues == {95000000, 100000000}
CreatedHeights == {CreatedHeight}

WithdrawalRequest(amount, current_height, signers, is_emergency, last) ==
    [amount |-> amount, current_height |-> current_height,
     signers |-> signers, is_emergency |-> is_emergency,
     last_withdrawal_height |-> last]

\* The requests of the tests and examples (small and large withdrawals by
\* two or three signers, a lone signer, an emergency exit) and a repeated
\* signer, a signer outside the vault, a large withdrawal inside the
\* cooling period.
Requests ==
    {WithdrawalRequest(5000000, 150, <<1, 2>>, FALSE, None),
     WithdrawalRequest(50000000, 150, <<1, 2>>, FALSE, None),
     WithdrawalRequest(50000000, 150, <<1, 2, 3>>, FALSE, None),
     WithdrawalRequest(50000000, 150, <<1, 2, 3>>, FALSE, 100),
     WithdrawalRequest(5000000, 150, <<1>>, FALSE, None),
     WithdrawalRequest(5000000, 150, <<1, 1>>, FALSE, None),
     WithdrawalRequest(5000000, 150, <<1, 4>>, FALSE, None),
     WithdrawalRequest(100000000, 52700, <<1, 2>>, TRUE, None),
     WithdrawalRequest(100000000, 150, <<1, 2>>, TRUE, None)}

\* No vault, no token, no governance system yet.
InitEmpty ==
    /\ vault = NoVault
    /\ rules = conservative
    /\ withdrawal_history = <<>>
    /\ proofs = <<>>
    /\ key_counter = 0
    /\ predicate = NoPredicate
    /\ token_created = FALSE
    /\ balances = [k \in Pubkeys |-> 0]
    /\ allowances = [pr \in Pubkeys \X Pubkeys |-> 0]
    /\ transfer_history = <<>>
    /\ proposals = <<>>
    /\ proposal_counter = 0
    /\ effects = {}
    /\ ret = Result("init", TRUE, "", 0)

\* A MultiPartyVault right after its construction.
InitWith(lists, rulesets) ==
    /\ vault \in Constructed(lists)
    /\ rules \in rulesets
    /\ withdrawal_history = <<>>
    /\ proofs = <<>>
    /\ key_counter = 0
    /\ predicate = NoPredicate
    /\ token_created = FALSE
    /\ balances = [k \in Pubkeys |-> 0]
    /\ allowances = [pr \in Pubkeys \X Pubkeys |-> 0]
    /\ transfer_history = <<>>
    /\ proposals = <<>>
    /\ proposal_counter = 0
    /\ effects = {}
    /\ ret = Result("init", TRUE, "", 0)

\* Construction
NextConstruct ==
    /\ vault = NoVault
    /\ ret.op = "init"
    /\ \E members \in MemberLists, r \in RulePresets : NewVault(members, r)

SpecConstruct == InitEmpty /\ [][NextConstruct]_vars

\* Withdrawals
InitVault == InitWith({ExampleMembers}, RulePresets)

NextVault ==
    \/ \E b \in BalanceValues : SetTotalBalance(b)
    \/ \E h \in CreatedHeights : SetCreatedHeight(h)
    \/ \E request \in Requests : CreateWithdrawalProof(request)
    \/ \E i \in 1..MaxProofs : VerifyWithdrawal(i)
    \/ \E i \in 1..MaxProofs : ExecuteWithdrawal(i)

SpecVault == InitVault /\ [][NextVault]_vars

\* Share token
InitToken == InitWith({ExampleMembers, TwoMembers, SameKeyMembers}, {conservative})

NextToken ==
    \/ CreateForVault
    \/ \E f \in Pubkeys, t \in Pubkeys, a \in TransferAmounts : Transfer(f, t, a)
    \/ \E o \in Owners, sp \in Spenders, a \in ApproveAmounts : Approve(o, sp, a)
    \/ \E sp \in Spenders, f \in Owners, t \in Pubkeys, a \in TransferAmounts :
           TransferFrom(sp, f, t, a)

SpecToken == InitToken /\ [][NextToken]_vars

\* Governance
InitGov == InitWith({TwoMembers}, {conservative})

NextGov ==
    \/ CreateForVault
    \/ \E f \in GovSenders, t \in GovRecipients, a \in GovTransferAmounts :
           Transfer(f, t, a)
    \/ \E p \in Proposers, ty \in ProposalTypes, h \in CreateHeights,
          rq \in RequiredPowers, vp \in VotingPeriods, d \in ExecutionDelays :
           CreateProposal(p, ty, h, rq, vp, d)
    \/ \E id \in ProposalIds, v \in Pubkeys, f \in BOOLEAN, h \in Heights :
           Vote(id, v, f, h)
    \/ \E id \in ProposalIds, h \in Heights : FinalizeProposal(id, h)
    \/ \E id \in ProposalIds, h \in Heights : ExecuteProposal(id, h)

SpecGov == InitGov /\ [][NextGov]_vars

\* Predicate evaluation: a caller builds predicates over the example vault,
\* the balance changes, predicates are evaluated.  The rules are the presets
\* and the conservative preset with a quorum of all three members.
PredicateRules == RulePresets \cup {[conservative EXCEPT !.min_signers = 3]}

\* Small, large and over-the-maximum amounts; a height before the emergency
\* timeouts, one block before the conservative timeout and at it; no
\* signer, too few, enough, all, a repeated one, one outside the vault; no
\* earlier withdrawal or one inside the cooling period of the early or the
\* late heights.
PredicateRequests ==
    {WithdrawalRequest(a, h, sg, e, l) :
        a \in {5000000, 50000000, 300000000},
        h \in {150, 52559, 52560},
        sg \in {<<>>, <<1>>, <<1, 2>>, <<1, 2, 3>>, <<1, 1>>, <<1, 4>>, <<4>>},
        e \in BOOLEAN,
        l \in {None, 140, 52500}}

InitPredicate == InitWith({ExampleMembers}, PredicateRules)

NextPredicate ==
    \/ \E b \in BalanceValues : SetTotalBalance(b)
    \/ \E request \in PredicateRequests : NewPredicate(request)
    \/ PredicateVerify

SpecPredicate == InitPredicate /\ [][NextPredicate]_vars

\* Proofs: requests that pass (two signers, all three for a large amount)
\* and that fail (a lone signer, a signer outside the vault), through
\* create_withdrawal_proof and through GrailProof.generate on a predicate
\* the caller built earlier; the balance and the rules object change in
\* between.
ProofRequests ==
    {WithdrawalRequest(5000000, 150, <<1, 2>>, FALSE, None),
     WithdrawalRequest(50000000, 150, <<1, 2, 3>>, FALSE, None),
     WithdrawalRequest(5000000, 150, <<1>>, FALSE, None),
     WithdrawalRequest(5000000, 150, <<1, 4>>, FALSE, None)}

PenaltyFreeHeights == {0, 1000}

InitProof == InitWith({ExampleMembers}, {conservative})

NextProof ==
    \/ \E b \in BalanceValues : SetTotalBalance(b)
    \/ \E h \in PenaltyFreeHeights : SetPenaltyFreeHeight(h)
    \/ \E request \in ProofRequests : NewPredicate(request)
    \/ \E request \in ProofRequests : CreateWithdrawalProof(request)
    \/ GenerateProof
    \/ \E i \in 1..MaxProofs : VerifyWithdrawal(i)

SpecProof == InitProof /\ [][NextProof]_vars

\* Repeated withdrawals on the normal path: small and large amounts at three
\* heights, by two or all three members, with no last withdrawal height
\* supplied (as web_interface/app.py and demo.py build their requests) and
\* with the height of a withdrawal at block 150 supplied.
CoolingHeights == {150, 200, 300}

CoolingRequests ==
    {WithdrawalRequest(a, h, sg, FALSE, l) :
        a \in {5000000, 50000000}, h \in CoolingHeights,
        sg \in {<<1, 2>>, <<1, 2, 3>>}, l \in {None, 150}}

InitCooling == InitWith({ExampleMembers}, {conservative})

NextCooling ==
    \/ \E b \in BalanceValues : SetTotalBalance(b)
    \/ \E request \in CoolingRequests : SimulatedWithdrawal(request)

SpecCooling == InitCooling /\ [][NextCooling]_vars

\* Commitments: the example vaults, the same members listed in another
\* order and with other shares, and two vaults whose keys are hex strings
\* of different lengths.
ShortKeyMembers == <<MemberAt(5, 50, 50), MemberAt(7, 50, 100)>>
LongKeyMembers == <<MemberAt(6, 50, 838860800), MemberAt(2, 50, 100)>>

CommitMemberLists ==
    {ExampleMembers,
     <<Member(3, 25), Member(1, 40), Member(2, 35)>>,
     <<Member(1, 35), Member(2, 40), Member(3, 25)>>,
     TwoMembers,
     <<Member(2, 43), Member(1, 57)>>,
     <<MemberAt(1, 57, 100), MemberAt(2, 43, 101)>>,
     ShortKeyMembers,
     LongKeyMembers}

CommitBalances == {0, 95000000, 100000000}
CommitHeights == {0, 100, 256}

\* The vaults compared: every constructible vault of the lists, funded and
\* dated with every value.
CommitVaults ==
    {[w EXCEPT !.total_balance = b, !.created_height = h] :
        w \in Constructed(CommitMemberLists),
        b \in CommitBalances, h \in CommitHeights}

InitCommit == InitWith(CommitMemberLists, {conservative})

NextCommit ==
    \/ \E b \in CommitBalances : SetTotalBalance(b)
    \/ \E h \in CommitHeights : SetCreatedHeight(h)
    \/ CommitmentHash

SpecCommit == InitCommit /\ [][NextCommit]_vars

\* Proposing: vaults whose second member holds exactly 5% and 4%, so that
\* proposers stand at, above and below the minimum, and outsiders at 0.
FivePercentMembers == <<Member(1, 95), Member(2, 5)>>
FourPercentMembers == <<Member(1, 96), Member(2, 4)>>

\* GovernanceSystem(vault, vault_token) right after its construction, for
\* the vaults of the given member lists.
InitGovernance(lists) ==
    /\ vault \in Constructed(lists)
    /\ rules = conservative
    /\ withdrawal_history = <<>>
    /\ proofs = <<>>
    /\ key_counter = 0
    /\ predicate = NoPredicate
    /\ token_created = TRUE
    /\ balances = mint_initial_tokens(vault.members, [k \in Pubkeys |-> 0])
    /\ allowances = [pr \in Pubkeys \X Pubkeys |-> 0]
    /\ transfer_history = <<>>
    /\ proposals = <<>>
    /\ proposal_counter = 0
    /\ effects = {}
    /\ ret = Result("init", TRUE, "", 0)

InitPropose == InitGovernance({FivePercentMembers, FourPercentMembers})

\* The defaults of create_proposal (51%, 1008 blocks, 144 blocks) and the
\* short periods of the other specifications.
NextPropose ==
    \E p \in Pubkeys, ty \in ProposalTypes, h \in {0, 1000},
       rq \in {51, 57}, vp \in {1, 1008}, d \in {1, 144} :
        CreateProposal(p, ty, h, rq, vp, d)

SpecPropose == InitPropose /\ [][NextPropose]_vars

\* Voting while the ledger moves: the 57% holder proposes, members vote
\* within the voting period and one block after it, and the 57% holder's tokens move away by transfer or, after an approval,
\* by the spender's transfer_from.
InitBallot == InitGovernance({TwoMembers})

NextBallot ==
    \/ CreateProposal(1, "add_member", 0, 57, 1, 1)
    \/ \E id \in ProposalIds, v \in Pubkeys, f \in BOOLEAN, h \in {0, 2} :
           Vote(id, v, f, h)
    \/ \E f \in GovSenders, t \in GovRecipients, a \in GovTransferAmounts :
           Transfer(f, t, a)
    \/ \E o \in GovSenders, sp \in Spenders, a \in GovTransferAmounts :
           Approve(o, sp, a)
    \/ \E sp \in Spenders, o \in GovSenders, t \in GovRecipients,
          a \in GovTransferAmounts : TransferFrom(sp, o, t, a)

SpecBallot == InitBallot /\ [][NextBallot]_vars

\* Rules as pure functions: the presets with the penalty rates and
\* penalty-free heights of the tests, applied to amounts around the
\* thresholds and to small amounts that do not divide evenly.
RuleInputs ==
    {[base EXCEPT !.early_withdrawal_penalty_bps = b, !.penalty_free_height = f] :
        base \in RulePresets, b \in {0, 500, 1000, 3333, 10000}, f \in {0, 1000}}

PenaltyAmounts == {0, 1, 19, 9999, 5000000, 100000000, 200000000}
PenaltyHeights == {500, 999, 1000, 1001}
ValidateAmounts == {5000000, 9999999, 10000000, 50000000, 100000000,
                    100000001, 200000001}
SignerCounts == 0..4
MemberCounts == {2, 3}

\* A WithdrawalRules object on its own: no vault, no token.
InitRules ==
    /\ vault = NoVault
    /\ rules \in RuleInputs
    /\ withdrawal_history = <<>>
    /\ proofs = <<>>
    /\ key_counter = 0
    /\ predicate = NoPredicate
    /\ token_created = FALSE
    /\ balances = [k \in Pubkeys |-> 0]
    /\ allowances = [pr \in Pubkeys \X Pubkeys |-> 0]
    /\ transfer_history = <<>>
    /\ proposals = <<>>
    /\ proposal_counter = 0
    /\ effects = {}
    /\ ret = Result("init", TRUE, "", 0)

NextRules ==
    \/ \E a \in ValidateAmounts, sc \in SignerCounts, tm \in MemberCounts :
           ValidateWithdrawal(a, sc, tm)
    \/ \E a \in PenaltyAmounts, h \in PenaltyHeights : CalculatePenalty(a, h)

SpecRules == InitRules /\ [][NextRules]_vars

\* The cooling check as a pure function: amounts one below and at the
\* large-withdrawal thresholds of the presets; no earlier withdrawal or one
\* at block 0, 144 or 300; heights one before, at and after each cooling
\* period counted from those.
CoolingCheckAmounts == {9999999, 10000000, 49999999, 50000000}
CoolingCheckLast == {None, 0, 144, 300}
CoolingCheckHeights == {71, 72, 143, 144, 215, 216, 217, 287, 288, 289}

NextCoolingCheck ==
    \E h \in CoolingCheckHeights, l \in CoolingCheckLast,
       a \in CoolingCheckAmounts : CheckCoolingPeriod(h, l, a)

SpecCoolingCheck == InitRules /\ [][NextCoolingCheck]_vars

\* The normal path with a penalty: the presets before and after their
\* penalty-free height (set to 1000 as the tests set it); balances below,
\* at and above the net amount of a 5,000,000 withdrawal under a 10%
\* penalty, and a full vault; small, large and over-the-maximum amounts by
\* one, two and three members, with and without an earlier withdrawal.
NormalPathRules ==
    {[base EXCEPT !.penalty_free_height = f] : base \in RulePresets, f \in {0, 1000}}

NormalPathBalances == {4499999, 4500000, 4700000, 100000000}

NormalPathRequests ==
    {WithdrawalRequest(a, h, sg, FALSE, l) :
        a \in {5000000, 50000000, 300000000},
        h \in {150, 1200},
        sg \in {<<1>>, <<1, 2>>, <<1, 2, 3>>},
        l \in {None, 140}}

InitNormalPath == InitWith({ExampleMembers}, NormalPathRules)

NextNormalPath ==
    \/ \E b \in NormalPathBalances : SetTotalBalance(b)
    \/ \E request \in NormalPathRequests : NewPredicate(request)
    \/ PredicateVerify

SpecNormalPath == InitNormalPath /\ [][NextNormalPath]_vars

\* Governance over a token that exists already: GovernanceSystem(vault,
\* vault_token) right after its construction.
InitExec ==
    /\ vault \in Constructed({TwoMembers})
    /\ rules = conservative
    /\ withdrawal_history = <<>>
    /\ proofs = <<>>
    /\ key_counter = 0
    /\ predicate = NoPredicate
    /\ token_created = TRUE
    /\ balances = mint_initial_tokens(vault.members, [k \in Pubkeys |-> 0])
    /\ allowances = [pr \in Pubkeys \X Pubkeys |-> 0]
    /\ transfer_history = <<>>
    /\ proposals = <<>>
    /\ proposal_counter = 0
    /\ effects = {}
    /\ ret = Result("init", TRUE, "", 0)

NextExec ==
    \/ \E p \in Proposers, ty \in ProposalTypes, h \in CreateHeights,
          rq \in RequiredPowers, vp \in VotingPeriods, d \in ExecutionDelays :
           CreateProposal(p, ty, h, rq, vp, d)
    \/ \E id \in ProposalIds, v \in Pubkeys, f \in BOOLEAN, h \in Heights :
           Vote(id, v, f, h)
    \/ \E id \in ProposalIds, h \in Heights : FinalizeProposal(id, h)
    \/ \E id \in ProposalIds, h \in Heights : ExecuteProposal(id, h)

SpecExec == InitExec /\ [][NextExec]_vars

\* The height of the last governance call (proposals are created at block 0).
LastHeight ==
    IF ret.op = "vote" THEN ret.arg[3]
    ELSE IF ret.op \in {"finalize_proposal", "execute_proposal"} THEN ret.arg[2]
    ELSE 0

\* Governance calls whose heights never decrease from one call to the next.
NextMonotone ==
    \/ /\ LastHeight = 0
       /\ \E p \in Proposers, ty \in {"add_member"}, h \in CreateHeights,
             rq \in RequiredPowers, vp \in VotingPeriods, d \in ExecutionDelays :
              CreateProposal(p, ty, h, rq, vp, d)
    \/ \E id \in ProposalIds, v \in Pubkeys, f \in BOOLEAN, h \in Heights :
           h >= LastHeight /\ Vote(id, v, f, h)
    \/ \E id \in ProposalIds, h \in Heights :
           h >= LastHeight /\ FinalizeProposal(id, h)
    \/ \E id \in ProposalIds, h \in Heights :
           h >= LastHeight /\ ExecuteProposal(id, h)

SpecMonotone == InitExec /\ [][NextMonotone]_vars

Init == InitEmpty \/ InitExec \/ InitBallot \/ InitPropose \/ InitProof \/ InitPredicate \/ InitRules \/ InitVault \/ InitToken \/ InitGov
Next ==
    \/ NextConstruct \/ NextVault \/ NextToken \/ NextGov \/ NextExec
    \/ NextPredicate \/ NextRules \/ NextProof \/ NextPropose \/ NextBallot
Spec == Init /\ [][Next]_vars

-----------------------------------------------------------------------------
(* Properties *)

\* The vault is in the state the i-th proof was generated in: the commitment
\* captured in the proof is the vault's current commitment.
Fresh(i) == proofs[i].predicate.vault_commitment = commitment_hash(vault)

\* amount / TotalSupply * 100 >= pct over the rationals
\* (TotalSupply = 100 * PercentUnit).
ExactPercentageGE(amount, pct) == amount >= pct * PercentUnit

\* C1: once the token exists, the balances sum to total_supply
\* (100,000,000), whatever transfer, approve and transfer_from calls were
\* made.
C1_SumIsTotalSupply == token_created => SumBalances = TotalSupply

\* C2: verify_withdrawal of a proof returns true when the vault is still in
\* the state the proof was generated in.
C2_FreshProofVerifies ==
    (ret.op = "verify_withdrawal" /\ Fresh(ret.arg)) => ret.ok

\* C3: the verification key stored in a proof is the public key of the key
\* pair that signed the proof's attestation.
C3_KeyMatchesSigner ==
    \A i \in 1..Len(proofs) : proofs[i].verification_key = proofs[i].signing_key

\* C4: verify_withdrawal and execute_withdrawal of a proof fail when the
\* vault's commitment is no longer the one the proof was generated against.
C4_StaleProofRejected ==
    [][(/\ ret'.op \in {"verify_withdrawal", "execute_withdrawal"}
        /\ ~Fresh(ret'.arg))
       => (~ret'.ok /\ vault' = vault
           /\ withdrawal_history' = withdrawal_history)]_vars

\* C4 witness: two proofs were generated against the same vault state, the
\* balance changed afterwards, and a verification of one of them failed.
C4_Witness ==
    /\ ret.op = "verify_withdrawal"
    /\ ~ret.ok
    /\ ~Fresh(ret.arg)
    /\ Len(proofs) = 2
    /\ proofs[1].predicate.vault_commitment = proofs[2].predicate.vault_commitment
    /\ \E b \in BalanceValues \cup {0} :
           /\ b # vault.total_balance
           /\ proofs[1].predicate.vault_commitment
                  = commitment_hash([vault EXCEPT !.total_balance = b])

\* C5: execute_withdrawal of a proof, with the vault still in the state the
\* proof was generated in and holding at least the net amount, succeeds,
\* lowers total_balance by the net amount and appends one record to the
\* withdrawal history.
C5_FreshProofExecutes ==
    [][(/\ ret'.op = "execute_withdrawal"
        /\ Fresh(ret'.arg)
        /\ get_net_withdrawal_amount(proofs[ret'.arg].predicate, rules)
               <= vault.total_balance)
       => (/\ ret'.ok
           /\ vault'.total_balance = vault.total_balance
                  - get_net_withdrawal_amount(proofs[ret'.arg].predicate, rules)
           /\ Len(withdrawal_history') = Len(withdrawal_history) + 1)]_vars

\* C6: construction yields a vault if and only if the shares of the member
\* list sum to 100; every vault that exists has shares summing to 100.
C6_SharesSumTo100 ==
    /\ vault # NoVault => SumShares(vault.members) = 100
    /\ ret.op = "new_vault" =>
           /\ ret.ok <=> SumShares(ret.arg) = 100
           /\ ret.ok <=> vault # NoVault

\* C6 witness: the construction of the test (shares 50 and 30) was refused.
C6_Witness ==
    /\ ret.op = "new_vault"
    /\ ~ret.ok
    /\ vault = NoVault
    /\ ret.arg = <<Member(1, 50), Member(2, 30)>>

\* C7: a proposal that is Rejected or Executed keeps its status.
C7_TerminalStatus ==
    [][\A i \in 1..Len(proposals) :
           proposals[i].status \in {"rejected", "executed"}
           => proposals'[i].status = proposals[i].status]_vars

\* C8: a status changes only Active->Passed, Active->Rejected or
\* Passed->Executed, the last only by a successful execute_proposal.
C8_StatusTransitions ==
    [][\A i \in 1..Len(proposals) :
           proposals'[i].status # proposals[i].status
           => \/ /\ proposals[i].status = "active"
                 /\ proposals'[i].status \in {"passed", "rejected"}
              \/ /\ proposals[i].status = "passed"
                 /\ proposals'[i].status = "executed"
                 /\ ret'.op = "execute_proposal"
                 /\ ret'.ok]_vars

\* C9: a vote by an identity already among the proposal's voters returns
\* false and leaves voters, votes_for and votes_against as they were.
C9_SecondVoteRejected ==
    [][(/\ ret'.op = "vote"
        /\ ret'.arg[1] \in 1..Len(proposals)
        /\ ret'.arg[2] \in SeqToSet(proposals[ret'.arg[1]].voters))
       => (/\ ~ret'.ok
           /\ proposals'[ret'.arg[1]].voters = proposals[ret'.arg[1]].voters
           /\ proposals'[ret'.arg[1]].votes_for = proposals[ret'.arg[1]].votes_for
           /\ proposals'[ret'.arg[1]].votes_against
                  = proposals[ret'.arg[1]].votes_against)]_vars

\* C9 witness: an identity that had voted voted again within the voting
\* period and was refused.
C9_Witness ==
    /\ ret.op = "vote"
    /\ ~ret.ok
    /\ ret.arg[1] \in 1..Len(proposals)
    /\ ret.arg[2] \in SeqToSet(proposals[ret.arg[1]].voters)
    /\ ret.arg[3] <= proposals[ret.arg[1]].voting_ends_at_height

\* C10: finalize_proposal after the voting period, on a proposal with at
\* least one vote, sets Passed and execution_height = current_height +
\* execution_delay_blocks if votes_for / total_supply * 100 >=
\* required_voting_power, and sets Rejected otherwise.
C10_FinalizeByPercentage ==
    [][(/\ ret'.op = "finalize_proposal"
        /\ ret'.arg[1] \in 1..Len(proposals)
        /\ ret'.arg[2] > proposals[ret'.arg[1]].voting_ends_at_height
        /\ Len(proposals[ret'.arg[1]].voters) >= 1)
       => LET before == proposals[ret'.arg[1]]
              after == proposals'[ret'.arg[1]]
          IN  IF ExactPercentageGE(before.votes_for, before.required_voting_power)
              THEN /\ after.status = "passed"
                   /\ after.execution_height
                          = ret'.arg[2] + before.execution_delay_blocks
              ELSE after.status = "rejected"]_vars

\* The action kinds of the effect descriptors the four documented proposal
\* types yield.
ActionKinds == {"rules_updated", "member_added", "member_removed",
                "emergency_exit_executed"}

\* C11: execute_proposal on a Passed proposal with current_height <
\* execution_height raises "Execution delay not met", returns no effect
\* descriptor and leaves the proposal Passed and otherwise as it was.
C11_ExecuteBeforeDelayFails ==
    [][(/\ ret'.op = "execute_proposal"
        /\ ret'.arg[1] \in 1..Len(proposals)
        /\ proposals[ret'.arg[1]].status = "passed"
        /\ ret'.arg[2] < proposals[ret'.arg[1]].execution_height)
       => (/\ ~ret'.ok
           /\ ret'.reason = "delay_not_met"
           /\ proposals' = proposals
           /\ proposals'[ret'.arg[1]].status = "passed")]_vars

\* C11 witness: a Passed proposal was executed one block before its
\* execution height and the call failed on the delay.
C11_Witness ==
    /\ ret.op = "execute_proposal"
    /\ ~ret.ok
    /\ ret.reason = "delay_not_met"
    /\ ret.arg[1] \in 1..Len(proposals)
    /\ proposals[ret.arg[1]].status = "passed"
    /\ ret.arg[2] + 1 = proposals[ret.arg[1]].execution_height

\* C12: execute_proposal on a proposal whose status is Active, Rejected or
\* Executed raises "Proposal not passed", returns no effect descriptor and
\* leaves the proposal table as it was.
C12_ExecuteNotPassedFails ==
    [][(/\ ret'.op = "execute_proposal"
        /\ ret'.arg[1] \in 1..Len(proposals)
        /\ proposals[ret'.arg[1]].status \in {"active", "rejected", "executed"})
       => (/\ ~ret'.ok
           /\ ret'.reason = "not_passed"
           /\ proposals' = proposals)]_vars

\* C12 witness: a proposal that had been executed was executed again, at or
\* after its execution height, and the call failed as not passed.
C12_Witness ==
    /\ ret.op = "execute_proposal"
    /\ ~ret.ok
    /\ ret.reason = "not_passed"
    /\ ret.arg[1] \in 1..Len(proposals)
    /\ proposals[ret.arg[1]].status = "executed"
    /\ ret.arg[2] >= proposals[ret.arg[1]].execution_height

\* C13: execute_proposal on a Passed proposal with current_height >=
\* execution_height sets the status to Executed and returns a descriptor
\* whose action is the change-rules, add-member, remove-member or
\* emergency-exit action that belongs to the proposal's type.
C13_ExecuteYieldsTypedEffect ==
    [][(/\ ret'.op = "execute_proposal"
        /\ ret'.arg[1] \in 1..Len(proposals)
        /\ proposals[ret'.arg[1]].status = "passed"
        /\ ret'.arg[2] >= proposals[ret'.arg[1]].execution_height)
       => LET type == proposals[ret'.arg[1]].proposal_type
          IN  /\ ret'.ok
              /\ proposals'[ret'.arg[1]].status = "executed"
              /\ ret'.reason \in ActionKinds
              /\ type = "change_withdrawal_rules" => ret'.reason = "rules_updated"
              /\ type = "add_member" => ret'.reason = "member_added"
              /\ type = "remove_member" => ret'.reason = "member_removed"
              /\ type = "emergency_exit"
                     => ret'.reason = "emergency_exit_executed"]_vars

\* C14: a governance call that reports failure (create_proposal or
\* execute_proposal raising, vote or finalize_proposal returning false)
\* leaves every proposal's status, tallies, voters and execution_height as
\* they were.
C14_FailureLeavesProposals ==
    [][(/\ ret'.op \in {"create_proposal", "vote", "finalize_proposal",
                        "execute_proposal"}
        /\ ~ret'.ok)
       => proposals' = proposals]_vars


\* The balance table after amount has moved from from_pubkey to to_pubkey.
Moved(bal, from_pubkey, to_pubkey, amount) ==
    [k \in Pubkeys |->
        IF from_pubkey = to_pubkey THEN bal[k]
        ELSE IF k = from_pubkey THEN bal[k] - amount
        ELSE IF k = to_pubkey THEN bal[k] + amount
        ELSE bal[k]]

\* The transfer log after one entry for the movement was appended: the
\* earlier entries are as they were.
Logged(log_before, log_after, from_pubkey, to_pubkey, amount) ==
    /\ Len(log_after) = Len(log_before) + 1
    /\ SubSeq(log_after, 1, Len(log_before)) = log_before
    /\ log_after[Len(log_after)].from = from_pubkey
    /\ log_after[Len(log_after)].to = to_pubkey
    /\ log_after[Len(log_after)].amount = amount

\* C15: transfer(from, to, amount) returns false when amount <= 0 or
\* balance(from) < amount and then leaves every balance, every allowance
\* and the transfer log as they were; otherwise it returns true, moves
\* exactly amount from from to to, and appends exactly one log entry after
\* the earlier ones.
C15_TransferAllOrNothing ==
    [][ret'.op = "transfer"
       => LET from_pubkey == ret'.arg[1]
              to_pubkey == ret'.arg[2]
              amount == ret'.arg[3]
          IN  IF amount <= 0 \/ balances[from_pubkey] < amount
              THEN /\ ~ret'.ok
                   /\ balances' = balances
                   /\ allowances' = allowances
                   /\ transfer_history' = transfer_history
              ELSE /\ ret'.ok
                   /\ balances' = Moved(balances, from_pubkey, to_pubkey, amount)
                   /\ allowances' = allowances
                   /\ Logged(transfer_history, transfer_history',
                             from_pubkey, to_pubkey, amount)]_vars

\* C15 witness: after one transfer had succeeded, a transfer of a positive
\* amount above the sender's balance was refused.
C15_Witness ==
    /\ ret.op = "transfer"
    /\ ~ret.ok
    /\ ret.arg[3] > 0
    /\ balances[ret.arg[1]] < ret.arg[3]
    /\ Len(transfer_history) = 1

\* C16: transfer_from(spender, owner, to, amount) returns false when
\* allowance(owner, spender) < amount or the underlying transfer fails, and
\* then balances, allowances and the log are as they were; when it succeeds
\* it moves amount from owner to to and lowers allowance(owner, spender) by
\* exactly amount, to a value that is not negative.  No other allowance
\* changes, so what a spender moves between two approve calls is what the
\* allowance dropped by, at most the approved amount.
C16_TransferFromSpendsAllowance ==
    [][ret'.op = "transfer_from"
       => LET spender == ret'.arg[1]
              owner == ret'.arg[2]
              to_pubkey == ret'.arg[3]
              amount == ret'.arg[4]
              allowed == allowances[<<owner, spender>>]
          IN  IF allowed < amount \/ amount <= 0 \/ balances[owner] < amount
              THEN /\ ~ret'.ok
                   /\ balances' = balances
                   /\ allowances' = allowances
                   /\ transfer_history' = transfer_history
              ELSE /\ ret'.ok
                   /\ balances' = Moved(balances, owner, to_pubkey, amount)
                   /\ Logged(transfer_history, transfer_history',
                             owner, to_pubkey, amount)
                   /\ allowances' = [allowances EXCEPT
                                        ![<<owner, spender>>] = allowed - amount]
                   /\ allowances'[<<owner, spender>>] >= 0
                   /\ allowances'[<<owner, spender>>] + amount = allowed]_vars

\* C16 witness: of an approved 60,000,000 the spender moved 57,000,000 and
\* 3,000,000 remain allowed.
C16_Witness ==
    /\ ret.op = "transfer_from"
    /\ ret.ok
    /\ ret.arg[4] = 57000000
    /\ allowances[<<ret.arg[2], ret.arg[1]>>] = 3000000


\* The identities of the vault's members.
MemberKeys(v) == {v.members[i].pubkey : i \in 1..Len(v.members)}

\* The commitment captured in the predicate the caller holds is the
\* vault's current commitment.
PredicateFresh == predicate.vault_commitment = commitment_hash(vault)

\* C17: VaultPredicate.verify reports the first failing check in the order
\* commitment mismatch, non-member signer, duplicate signer, then the
\* emergency or normal-path checks; a request with a non-member signer and
\* too few signers is rejected as non-member.
C17_FirstFailingCheckWins ==
    ret.op = "predicate_verify" =>
        LET signers == predicate.withdrawal_request.signers
            all_members == SeqToSet(signers) \subseteq MemberKeys(vault)
            distinct == \A i, j \in 1..Len(signers) :
                            signers[i] = signers[j] => i = j
        IN  IF ~PredicateFresh THEN ret.reason = "commitment_mismatch"
            ELSE IF ~all_members THEN ret.reason = "non_member"
            ELSE IF ~distinct THEN ret.reason = "duplicate_signers"
            ELSE ret.reason \notin {"commitment_mismatch", "non_member",
                                     "duplicate_signers"}

\* C17 witness: a request signed by one identity outside the vault, fewer
\* signers than the quorum, was rejected as non-member.
C17_Witness ==
    /\ ret.op = "predicate_verify"
    /\ ret.reason = "non_member"
    /\ PredicateFresh
    /\ ~predicate.withdrawal_request.is_emergency
    /\ Len(predicate.withdrawal_request.signers) < rules.min_signers

\* C18: for an emergency request whose signers are distinct members (and
\* whose commitment is current), the predicate succeeds if and only if
\* current_height - created_height >= emergency_timeout_blocks and there
\* are at least 2 signers, whatever min_signers, the large-withdrawal rule,
\* max_single_withdrawal, the cooling period and the balance say; before
\* the timeout it fails with the timeout reason even with fewer than 2
\* signers.
C18_EmergencyPath ==
    (/\ ret.op = "predicate_verify"
     /\ PredicateFresh
     /\ predicate.withdrawal_request.is_emergency
     /\ SeqToSet(predicate.withdrawal_request.signers) \subseteq MemberKeys(vault)
     /\ Cardinality(SeqToSet(predicate.withdrawal_request.signers))
            = Len(predicate.withdrawal_request.signers))
    => LET req == predicate.withdrawal_request
           elapsed == req.current_height - vault.created_height
                          >= rules.emergency_timeout_blocks
       IN  /\ ret.ok <=> (elapsed /\ Len(req.signers) >= 2)
           /\ ~elapsed => ret.reason = "emergency_timeout"
           /\ (elapsed /\ Len(req.signers) < 2) => ret.reason = "emergency_signers"

\* C18 witness: an emergency request by two of three members succeeded
\* although the quorum is three, the amount is large, above
\* max_single_withdrawal and above the balance, and the last withdrawal is
\* inside the cooling period.
C18_Witness ==
    /\ ret.op = "predicate_verify"
    /\ ret.ok
    /\ predicate.withdrawal_request.is_emergency
    /\ Len(predicate.withdrawal_request.signers) = 2
    /\ rules.min_signers = 3
    /\ rules.large_withdrawal_requires_all
    /\ predicate.withdrawal_request.amount > rules.max_single_withdrawal
    /\ predicate.withdrawal_request.amount > vault.total_balance
    /\ predicate.withdrawal_request.last_withdrawal_height # None
    /\ predicate.withdrawal_request.current_height
           - predicate.withdrawal_request.last_withdrawal_height
           < rules.withdrawal_cooling_period

\* C19: validate_withdrawal(amount, signers_count, total_members) fails for
\* too few signers if signers_count < min_signers; else for the
\* large-withdrawal rule if amount >= large_withdrawal_threshold,
\* large_withdrawal_requires_all and signers_count # total_members; else
\* for the maximum if amount > max_single_withdrawal; else passes.  With
\* conservative rules and 3 members, 1 signer fails on quorum, 50,000,000
\* with 2 signers fails on the large-withdrawal rule and with 3 passes.
C19_ValidateWithdrawal ==
    ret.op = "validate_withdrawal" =>
        LET amount == ret.arg[1]
            signers_count == ret.arg[2]
            total_members == ret.arg[3]
            quorum == signers_count < rules.min_signers
            large == /\ amount >= rules.large_withdrawal_threshold
                     /\ rules.large_withdrawal_requires_all
                     /\ signers_count # total_members
            over == amount > rules.max_single_withdrawal
            conservative_quorum == /\ rules.min_signers = 2
                                   /\ rules.large_withdrawal_threshold = 10000000
                                   /\ rules.large_withdrawal_requires_all
                                   /\ rules.max_single_withdrawal = 100000000
        IN  /\ quorum => ret.reason = "quorum"
            /\ (~quorum /\ large) => ret.reason = "large_requires_all"
            /\ (~quorum /\ ~large /\ over) => ret.reason = "exceeds_max"
            /\ (~quorum /\ ~large /\ ~over) => ret.reason = "ok"
            /\ ret.ok <=> ret.reason = "ok"
            /\ (conservative_quorum /\ total_members = 3) =>
                   /\ signers_count = 1 => ret.reason = "quorum"
                   /\ (amount = 50000000 /\ signers_count = 2)
                          => ret.reason = "large_requires_all"
                   /\ (amount = 50000000 /\ signers_count = 3) => ret.ok

\* C19 witness: conservative rules, 3 members, 50,000,000 with 2 signers
\* failed on the large-withdrawal rule.
C19_Witness ==
    /\ ret.op = "validate_withdrawal"
    /\ rules = conservative
    /\ ret.arg = <<50000000, 2, 3>>
    /\ ret.reason = "large_requires_all"

\* C20: calculate_penalty(amount, h) is 0 when h >= penalty_free_height and
\* floor(amount * early_withdrawal_penalty_bps / 10000) otherwise (p is the
\* floor iff 10000 * p <= amount * bps < 10000 * (p + 1); with amount =
\* 10000 * q + r this is 10000 * (p - q * bps) <= r * bps < 10000 * (p - q *
\* bps + 1)); for bps <= 10000 the penalty is at most the amount and the
\* net amount is not negative; 100,000,000 at 1000 bps below the
\* penalty-free height gives 10,000,000.
C20_PenaltyFloor ==
    ret.op = "calculate_penalty" =>
        LET amount == ret.arg[1]
            h == ret.arg[2]
            penalty == ret.arg[3]
            bps == rules.early_withdrawal_penalty_bps
            q == amount \div 10000
            r == amount % 10000
            rest == penalty - q * bps
        IN  /\ h >= rules.penalty_free_height => penalty = 0
            /\ h < rules.penalty_free_height =>
                   /\ 10000 * rest <= r * bps
                   /\ r * bps < 10000 * (rest + 1)
            /\ bps <= 10000 => (penalty <= amount /\ amount - penalty >= 0)
            /\ (amount = 100000000 /\ bps = 1000 /\ h < rules.penalty_free_height)
                   => penalty = 10000000

\* C20 witness: the test's call, 100,000,000 at height 500 under 1000 bps
\* and a penalty-free height of 1000, returned 10,000,000.
C20_Witness ==
    /\ ret.op = "calculate_penalty"
    /\ rules.early_withdrawal_penalty_bps = 1000
    /\ rules.penalty_free_height = 1000
    /\ ret.arg = <<100000000, 500, 10000000>>


\* C21: proof generation, through create_withdrawal_proof and through
\* GrailProof.generate, raises and hands out no proof whenever the predicate
\* does not evaluate valid on the current vault state; a proof that is
\* handed out was generated from a request valid at that moment, and every
\* proof that exists carries the marker of a valid evaluation.
C21_NoProofUnlessValid ==
    [][(ret'.op \in {"create_withdrawal_proof", "generate_proof"})
       => LET pred == IF ret'.op = "generate_proof" THEN predicate
                      ELSE VaultPredicate(vault, ret'.arg)
              valid == predicate_verify(pred, vault, rules) = "ok"
          IN  /\ ~valid => (~ret'.ok /\ proofs' = proofs)
              /\ ret'.ok => valid
              /\ proofs' # proofs =>
                     /\ ret'.ok
                     /\ Len(proofs') = Len(proofs) + 1
                     /\ SubSeq(proofs', 1, Len(proofs)) = proofs
                     /\ proofs'[Len(proofs')].predicate = pred
              /\ \A i \in 1..Len(proofs') : proofs'[i].proof_hash.marker]_vars

\* C21 witness: a predicate that was valid when the caller built it was
\* refused by GrailProof.generate after the balance had changed, while an
\* earlier proof exists.
C21_Witness ==
    /\ ret.op = "generate_proof"
    /\ ~ret.ok
    /\ ret.reason = "commitment_mismatch"
    /\ predicate.withdrawal_request.signers = <<1, 2>>
    /\ Len(proofs) = 1


\* C28: the outcome of verifying a proof depends only on what the proof
\* holds since its generation and on the commitment passed in: against the
\* commitment the proof was generated for, the digest that verification
\* compares is the one fixed at generation, whatever happened to the live
\* vault and rules objects since.
C28_VerifyUsesProofOnly ==
    \A i \in 1..Len(proofs) :
        Fresh(i) => circuit_digest(proofs[i].predicate, vault, rules)
                        = proofs[i].proof_hash


\* C22: create_proposal succeeds only if the proposer's balance is at least
\* 5% of total_supply; otherwise it raises, adds no proposal and leaves the
\* proposal counter.  On success one proposal is added: Active, tallies 0,
\* no voters, voting_ends_at_height = current_height + voting_period_blocks.
C22_CreateProposalThreshold ==
    [][ret'.op = "create_proposal"
       => IF ret'.ok
          THEN LET new == proposals'[Len(proposals')]
               IN  /\ balances[new.proposer] >= MinProposalPower * PercentUnit
                   /\ Len(proposals') = Len(proposals) + 1
                   /\ SubSeq(proposals', 1, Len(proposals)) = proposals
                   /\ proposal_counter' = proposal_counter + 1
                   /\ new.status = "active"
                   /\ new.votes_for = 0
                   /\ new.votes_against = 0
                   /\ new.voters = <<>>
                   /\ new.execution_height = None
                   /\ new.voting_ends_at_height
                          = new.created_at_height + new.voting_period_blocks
          ELSE /\ balances[ret'.arg] < MinProposalPower * PercentUnit
               /\ proposals' = proposals
               /\ proposal_counter' = proposal_counter]_vars

\* C22 witness: a member holding exactly 5% created a proposal.
C22_Witness ==
    /\ ret.op = "create_proposal"
    /\ ret.ok
    /\ Len(proposals) = 1
    /\ balances[proposals[1].proposer] = MinProposalPower * PercentUnit


\* C23: a successful vote adds exactly the voter's ledger balance at the
\* time of the call to votes_for or to votes_against and records the voter;
\* a later transfer, approve or transfer_from changes no proposal's
\* votes_for, votes_against or voters.
C23_WeightFixedAtVote ==
    [][/\ (ret'.op = "vote" /\ ret'.ok) =>
              LET before == proposals[ret'.arg[1]]
                  after == proposals'[ret'.arg[1]]
                  weight == balances[ret'.arg[2]]
              IN  /\ after.voters = Append(before.voters, ret'.arg[2])
                  /\ \/ /\ after.votes_for = before.votes_for + weight
                        /\ after.votes_against = before.votes_against
                     \/ /\ after.votes_against = before.votes_against + weight
                        /\ after.votes_for = before.votes_for
                  /\ after.votes_for + after.votes_against
                         = before.votes_for + before.votes_against + weight
       /\ ret'.op \in {"transfer", "approve", "transfer_from"} =>
              proposals' = proposals]_vars

\* C23 witness: the 57% holder voted for with 57,000,000 and then the
\* approved spender moved the whole balance away; the tally still counts
\* 57,000,000.
C23_Witness ==
    /\ ret.op = "transfer_from"
    /\ ret.ok
    /\ Len(proposals) = 1
    /\ proposals[1].voters = <<1>>
    /\ proposals[1].votes_for = 57000000
    /\ balances[1] = 0

\* C24: create_proposal, vote, finalize_proposal and execute_proposal, for
\* every proposal type, leave the vault's members, total_balance,
\* created_height and vault_id, the withdrawal rules and every ledger
\* balance as they were.
C24_GovernanceLeavesVault ==
    [][ret'.op \in {"create_proposal", "vote", "finalize_proposal",
                    "execute_proposal"}
       => /\ vault' = vault
          /\ rules' = rules
          /\ balances' = balances]_vars

\* C24 witness: an emergency-exit proposal was executed; the vault, the
\* rules and the balances are those of the start.
C24_Witness ==
    /\ ret.op = "execute_proposal"
    /\ ret.ok
    /\ ret.reason = "emergency_exit_executed"
    /\ proposals[ret.arg[1]].status = "executed"
    /\ vault = Vault_init(TwoMembers)
    /\ rules = conservative
    /\ balances = mint_initial_tokens(TwoMembers, [k \in Pubkeys |-> 0])

\* C30: vote with current_height > voting_ends_at_height returns false,
\* records no voter and no weight, and sets the proposal's status to
\* Rejected.
C30_LateVoteRejects ==
    [][(/\ ret'.op = "vote"
        /\ ret'.arg[1] \in 1..Len(proposals)
        /\ ret'.arg[3] > proposals[ret'.arg[1]].voting_ends_at_height)
       => (/\ ~ret'.ok
           /\ proposals' = [proposals EXCEPT ![ret'.arg[1]].status = "rejected"]
           /\ proposals'[ret'.arg[1]].voters = proposals[ret'.arg[1]].voters
           /\ proposals'[ret'.arg[1]].votes_for = proposals[ret'.arg[1]].votes_for
           /\ proposals'[ret'.arg[1]].votes_against
                  = proposals[ret'.arg[1]].votes_against
           /\ proposals'[ret'.arg[1]].status = "rejected")]_vars

\* C30 witness: a member who had not voted voted one block after the
\* voting period; the proposal is Rejected and the member is not recorded.
C30_Witness ==
    /\ ret.op = "vote"
    /\ ~ret.ok
    /\ ret.arg[1] \in 1..Len(proposals)
    /\ ret.arg[3] = proposals[ret.arg[1]].voting_ends_at_height + 1
    /\ balances[ret.arg[2]] > 0
    /\ ret.arg[2] \notin SeqToSet(proposals[ret.arg[1]].voters)
    /\ proposals[ret.arg[1]].status = "rejected"

\* C26: in every vault the constructor yields the members' pubkeys are
\* pairwise distinct (a member list that repeats an identity is refused).
C26_MemberKeysDistinct ==
    vault # NoVault =>
        \A i \in 1..Len(vault.members), j \in 1..Len(vault.members) :
            i # j => vault.members[i].pubkey # vault.members[j].pubkey

\* C27: right after create_for_vault each member holds
\* total_supply * share / 100 tokens, every other identity holds none, and
\* the balances sum to total_supply.
C27_InitialBalancesFollowShares ==
    (ret.op = "create_for_vault" /\ ret.ok) =>
        /\ \A i \in 1..Len(vault.members) :
               balances[vault.members[i].pubkey]
                   = MulDivFloor(TotalSupply,
                                 vault.members[i].share_percentage, 100)
        /\ \A k \in Pubkeys : ~is_member(vault, k) => balances[k] = 0
        /\ SumOver(balances, Pubkeys) = TotalSupply

\* The same statement for vaults whose members carry distinct keys.
C27_DistinctKeysOnly == C26_MemberKeysDistinct => C27_InitialBalancesFollowShares

\* C25: two large withdrawals that follow each other in the history of the
\* normal path lie at least withdrawal_cooling_period blocks apart, whatever
\* last_withdrawal_height the requests carried.
C25_LargeWithdrawalsSpaced ==
    \A i \in 1..Len(withdrawal_history), j \in 1..Len(withdrawal_history) :
        (/\ i < j
         /\ is_large_withdrawal(rules, withdrawal_history[i].amount)
         /\ is_large_withdrawal(rules, withdrawal_history[j].amount)
         /\ \A m \in (i + 1)..(j - 1) :
                ~is_large_withdrawal(rules, withdrawal_history[m].amount))
        => withdrawal_history[j].height - withdrawal_history[i].height
               >= rules.withdrawal_cooling_period

\* The check the predicate does make: a large request that supplies a last
\* withdrawal height less than the cooling period back is refused.
C25_SuppliedHeightIsChecked ==
    (/\ ret.op = "simulated_withdrawal"
     /\ is_large_withdrawal(rules, ret.arg.amount)
     /\ ret.arg.last_withdrawal_height # None
     /\ ret.arg.current_height - ret.arg.last_withdrawal_height
            < rules.withdrawal_cooling_period)
    => ~ret.ok

\* One member list is the other in another order.
IsPermutation(s, t) ==
    /\ Len(s) = Len(t)
    /\ \E p \in [1..Len(s) -> 1..Len(s)] :
           /\ \A i, j \in 1..Len(s) : i # j => p[i] # p[j]
           /\ \A i \in 1..Len(s) : t[i] = s[p[i]]

SameCommittedState(w, v) ==
    /\ w.members = v.members
    /\ w.total_balance = v.total_balance
    /\ w.created_height = v.created_height

\* C29: the commitment of a vault equals the commitment of another vault
\* exactly when the two have the same members in the same order with the
\* same shares and join heights, the same total_balance and the same
\* created_height; and two vaults whose members are the same in another
\* order have the same vault_id.
C29_CommitmentBindsState ==
    ret.op = "commitment_hash" =>
        \A w \in CommitVaults :
            /\ (commitment_hash(w) = ret.arg) <=> SameCommittedState(w, vault)
            /\ IsPermutation(w.members, vault.members)
                   => w.vault_id = vault.vault_id

\* The part of C29 about vault_id alone.
C29_VaultIdOrderFree ==
    ret.op = "commitment_hash" =>
        \A w \in CommitVaults :
            IsPermutation(w.members, vault.members)
                => w.vault_id = vault.vault_id

KeysOfOneLength(v) ==
    \A i \in 1..Len(v.members) : Len(pubkey_bytes(v.members[i].pubkey)) = 1

\* C29 for vaults whose keys are all of one length.
C29_FixedWidthKeys ==
    (ret.op = "commitment_hash" /\ KeysOfOneLength(vault)) =>
        \A w \in CommitVaults :
            KeysOfOneLength(w) =>
                ((commitment_hash(w) = ret.arg) <=> SameCommittedState(w, vault))

\* C31: a vote by an identity whose balance is 0 at the call returns false
\* and leaves the proposal's voters and tallies as they were; a vote on an
\* unknown proposal id returns false and changes no proposal; and an
\* identity that holds tokens, is not among the voters and votes within the
\* voting period is recorded, whatever it attempted before.
C31_ZeroBalanceCannotVote ==
    [][ret'.op = "vote" =>
        LET id == ret'.arg[1]
            voter == ret'.arg[2]
            height == ret'.arg[3]
        IN  /\ id \notin 1..Len(proposals)
                => (~ret'.ok /\ proposals' = proposals)
            /\ (id \in 1..Len(proposals) /\ balances[voter] = 0)
                => /\ ~ret'.ok
                   /\ proposals'[id].voters = proposals[id].voters
                   /\ proposals'[id].votes_for = proposals[id].votes_for
                   /\ proposals'[id].votes_against = proposals[id].votes_against
            /\ (/\ id \in 1..Len(proposals)
                /\ balances[voter] > 0
                /\ voter \notin SeqToSet(proposals[id].voters)
                /\ height <= proposals[id].voting_ends_at_height)
                => /\ ret'.ok
                   /\ proposals'[id].voters = Append(proposals[id].voters, voter)
       ]_vars

\* C31 witness: an identity without tokens voted within the voting period
\* of a proposal and was refused.
C31_Witness ==
    /\ ret.op = "vote"
    /\ ~ret.ok
    /\ ret.arg[1] \in 1..Len(proposals)
    /\ balances[ret.arg[2]] = 0
    /\ ret.arg[3] <= proposals[ret.arg[1]].voting_ends_at_height
    /\ ret.arg[2] \notin SeqToSet(proposals[ret.arg[1]].voters)

\* An identity that had no tokens when the token was minted has voted after
\* receiving some.
C31_VotedAfterReceiving ==
    /\ ret.op = "vote"
    /\ ret.ok
    /\ ret.arg[2] = 3
    /\ transfer_history # <<>>

\* C32: finalize_proposal with current_height <= voting_ends_at_height
\* returns false and leaves the proposal as it was, and a proposal becomes
\* Passed only by a finalize_proposal after its voting period.
C32_FinalizeAwaitsPeriod ==
    [][/\ (/\ ret'.op = "finalize_proposal"
           /\ ret'.arg[1] \in 1..Len(proposals)
           /\ ret'.arg[2] <= proposals[ret'.arg[1]].voting_ends_at_height)
          => (~ret'.ok /\ proposals' = proposals)
       /\ \A id \in 1..Len(proposals) :
              (proposals[id].status # "passed" /\ proposals'[id].status = "passed")
              => /\ ret'.op = "finalize_proposal"
                 /\ ret'.arg[1] = id
                 /\ ret'.arg[2] > proposals[id].voting_ends_at_height
      ]_vars

\* C32 witness: a proposal whose votes in favour reach the required power
\* was finalized at the last block of its voting period; the call returned
\* false and the proposal is still Active.
C32_Witness ==
    /\ ret.op = "finalize_proposal"
    /\ ~ret.ok
    /\ ret.arg[1] \in 1..Len(proposals)
    /\ ret.arg[2] = proposals[ret.arg[1]].voting_ends_at_height
    /\ proposals[ret.arg[1]].status = "active"
    /\ proposals[ret.arg[1]].votes_for > 0
    /\ percentage_ge(proposals[ret.arg[1]].votes_for,
                     proposals[ret.arg[1]].required_voting_power)

\* C33: finalize_proposal after the voting period of a proposal on which no
\* vote is recorded sets it to Rejected, whatever its required_voting_power,
\* and a proposal without a recorded vote is never Passed or Executed.
C33_NoVotesRejected ==
    [][/\ (/\ ret'.op = "finalize_proposal"
           /\ ret'.arg[1] \in 1..Len(proposals)
           /\ ret'.arg[2] > proposals[ret'.arg[1]].voting_ends_at_height
           /\ proposals[ret'.arg[1]].voters = <<>>)
          => proposals'[ret'.arg[1]].status = "rejected"
       /\ \A id \in 1..Len(proposals') :
              proposals'[id].voters = <<>>
                  => proposals'[id].status \notin {"passed", "executed"}
      ]_vars

\* C33 witness: a proposal that requires 0% and has no vote was finalized
\* after its voting period and is Rejected.
C33_Witness ==
    /\ ret.op = "finalize_proposal"
    /\ ret.arg[1] \in 1..Len(proposals)
    /\ ret.arg[2] > proposals[ret.arg[1]].voting_ends_at_height
    /\ proposals[ret.arg[1]].voters = <<>>
    /\ proposals[ret.arg[1]].required_voting_power = 0
    /\ proposals[ret.arg[1]].status = "rejected"

\* C34: check_cooling_period is true whenever the amount is below
\* large_withdrawal_threshold or no last withdrawal height is given, and
\* otherwise it is true exactly when current_height - last_withdrawal_height
\* >= withdrawal_cooling_period.
C34_CoolingCheck ==
    ret.op = "check_cooling_period" =>
        LET current_height == ret.arg[1]
            last == ret.arg[2]
            amount == ret.arg[3]
        IN  /\ (amount < rules.large_withdrawal_threshold \/ last = None)
                => ret.ok
            /\ (amount >= rules.large_withdrawal_threshold /\ last # None)
                => (ret.ok <=> current_height - last
                                   >= rules.withdrawal_cooling_period)

\* C34 witness: a large amount exactly one cooling period after the last
\* withdrawal passed the check.
C34_Witness ==
    /\ ret.op = "check_cooling_period"
    /\ ret.ok
    /\ ret.arg[2] # None
    /\ ret.arg[3] >= rules.large_withdrawal_threshold
    /\ ret.arg[1] - ret.arg[2] = rules.withdrawal_cooling_period

\* A large amount one block short of the cooling period was refused.
C34_Refused ==
    /\ ret.op = "check_cooling_period"
    /\ ~ret.ok
    /\ ret.arg[1] - ret.arg[2] = rules.withdrawal_cooling_period - 1

\* C35: for a normal (non-emergency) request whose signers are distinct
\* members and whose commitment is current, the predicate succeeds if and
\* only if validate_withdrawal passes, the cooling check passes and
\* amount - penalty <= total_balance; a failure carries the reason of the
\* first of these three that fails, in that order.
C35_NormalPath ==
    (/\ ret.op = "predicate_verify"
     /\ PredicateFresh
     /\ ~predicate.withdrawal_request.is_emergency
     /\ SeqToSet(predicate.withdrawal_request.signers) \subseteq MemberKeys(vault)
     /\ Cardinality(SeqToSet(predicate.withdrawal_request.signers))
            = Len(predicate.withdrawal_request.signers))
    => LET req == predicate.withdrawal_request
           validation == validate_withdrawal(rules, req.amount,
                             Len(req.signers), Len(vault.members))
           cooling_ok == check_cooling_period(rules, req.current_height,
                             req.last_withdrawal_height, req.amount)
           net == req.amount
                  - calculate_penalty(rules, req.amount, req.current_height)
       IN  /\ ret.ok <=> (/\ validation = "ok"
                          /\ cooling_ok
                          /\ net <= vault.total_balance)
           /\ validation # "ok" => ret.reason = validation
           /\ (validation = "ok" /\ ~cooling_ok) => ret.reason = "cooling_period"
           /\ (validation = "ok" /\ cooling_ok /\ net > vault.total_balance)
                  => ret.reason = "insufficient_balance"

\* C35 witness: a withdrawal under a penalty was approved although its gross
\* amount exceeds the balance, because its net amount does not.
C35_Witness ==
    /\ ret.op = "predicate_verify"
    /\ ret.ok
    /\ PredicateFresh
    /\ ~predicate.withdrawal_request.is_emergency
    /\ predicate.withdrawal_request.amount > vault.total_balance
    /\ predicate.withdrawal_request.amount
           - calculate_penalty(rules, predicate.withdrawal_request.amount,
                               predicate.withdrawal_request.current_height)
       <= vault.total_balance

\* A request that fails the quorum, lies inside the cooling period and
\* exceeds the balance was refused for the quorum.
C35_ValidationFirst ==
    /\ ret.op = "predicate_verify"
    /\ ret.reason = "quorum"
    /\ PredicateFresh
    /\ ~check_cooling_period(rules, predicate.withdrawal_request.current_height,
                             predicate.withdrawal_request.last_withdrawal_height,
                             predicate.withdrawal_request.amount)
    /\ predicate.withdrawal_request.amount > vault.total_balance

\* A signer list names some identity more than once.
HasRepeatedSigner(signers) ==
    \E i, j \in 1..Len(signers) : i # j /\ signers[i] = signers[j]

\* C36: a request whose signers are all members, with a current commitment,
\* and whose signer list names an identity more than once is rejected as
\* duplicate signers, on the emergency path and on the normal path.
C36_RepeatedSignerRejected ==
    (/\ ret.op = "predicate_verify"
     /\ PredicateFresh
     /\ SeqToSet(predicate.withdrawal_request.signers) \subseteq MemberKeys(vault)
     /\ HasRepeatedSigner(predicate.withdrawal_request.signers))
    => (~ret.ok /\ ret.reason = "duplicate_signers")

\* C36 witness: an emergency request after the timeout, signed twice by one
\* member, was rejected as duplicate signers.
C36_Witness ==
    /\ ret.op = "predicate_verify"
    /\ ret.reason = "duplicate_signers"
    /\ PredicateFresh
    /\ predicate.withdrawal_request.is_emergency
    /\ predicate.withdrawal_request.current_height - vault.created_height
           >= rules.emergency_timeout_blocks
    /\ Len(predicate.withdrawal_request.signers) = 2

\* The same on the normal path: a small withdrawal signed twice by one
\* member, the list as long as the quorum.
C36_NormalPath ==
    /\ ret.op = "predicate_verify"
    /\ ret.reason = "duplicate_signers"
    /\ PredicateFresh
    /\ ~predicate.withdrawal_request.is_emergency
    /\ Len(predicate.withdrawal_request.signers) >= rules.min_signers
    /\ predicate.withdrawal_request.amount <= vault.total_balance

\* C37: no step takes total_balance from a non-negative to a negative
\* value; an execute_withdrawal that fails leaves total_balance and the
\* withdrawal history as they were; and create_withdrawal_proof and
\* execute_withdrawal never change members, vault_id or created_height.
C37_WithdrawalsKeepVaultSound ==
    [][/\ vault.total_balance >= 0 => vault'.total_balance >= 0
       /\ (ret'.op = "execute_withdrawal" /\ ~ret'.ok)
          => /\ vault'.total_balance = vault.total_balance
             /\ withdrawal_history' = withdrawal_history
       /\ ret'.op \in {"create_withdrawal_proof", "execute_withdrawal"}
          => /\ vault'.members = vault.members
             /\ vault'.vault_id = vault.vault_id
             /\ vault'.created_height = vault.created_height
      ]_vars

\* C37 witness: the proof of an emergency request for more than the vault
\* holds, generated in the vault's current state, was handed to
\* execute_withdrawal; the call failed and the balance is as it was.
C37_Witness ==
    /\ ret.op = "execute_withdrawal"
    /\ ~ret.ok
    /\ Fresh(ret.arg)
    /\ proofs[ret.arg].predicate.withdrawal_request.is_emergency
    /\ proofs[ret.arg].predicate.withdrawal_request.amount > vault.total_balance
    /\ vault.total_balance >= 0
    /\ withdrawal_history = <<>>

\* C38: for every proposal votes_for + votes_against is at most the total
\* supply of the token.
C38_TalliesWithinSupply ==
    \A id \in 1..Len(proposals) :
        proposals[id].votes_for + proposals[id].votes_against <= TotalSupply

\* The same while no token has moved since the mint.
C38_WithoutTransfers ==
    transfer_history = <<>> => C38_TalliesWithinSupply

\* C39: execute_proposal returns an effect descriptor at most once for each
\* proposal: it never succeeds for a proposal for which it has returned a
\* descriptor before.
C39_ExecutedAtMostOnce ==
    [][(ret'.op = "execute_proposal" /\ ret'.ok)
       => \A e \in effects : e[1] # ret'.arg[1]]_vars

\* C40: when the heights passed never decrease, a proposal that is Passed
\* or Rejected keeps its voters, votes_for and votes_against, and a Passed
\* proposal keeps its execution_height.
C40_FinalizedIsFrozen ==
    [][\A id \in 1..Len(proposals) :
          /\ proposals[id].status \in {"passed", "rejected"}
             => /\ proposals'[id].voters = proposals[id].voters
                /\ proposals'[id].votes_for = proposals[id].votes_for
                /\ proposals'[id].votes_against = proposals[id].votes_against
          /\ proposals[id].status = "passed"
             => proposals'[id].execution_height = proposals[id].execution_height
      ]_vars

\* The part of C40 about votes.
C40_NoVoteAfterFinalize ==
    [][\A id \in 1..Len(proposals) :
          proposals[id].status \in {"passed", "rejected"}
             => /\ proposals'[id].voters = proposals[id].voters
                /\ proposals'[id].votes_for = proposals[id].votes_for
                /\ proposals'[id].votes_against = proposals[id].votes_against
      ]_vars

\* A vote was attempted on a Passed proposal and refused.
C40_VoteAfterPassed ==
    /\ ret.op = "vote"
    /\ ~ret.ok
    /\ ret.arg[1] \in 1..Len(proposals)
    /\ balances[ret.arg[2]] > 0
    /\ ret.arg[2] \notin SeqToSet(proposals[ret.arg[1]].voters)
    /\ proposals[ret.arg[1]].execution_height # None

=============================================================================
